---- MODULE Spec2Model ----
(***************************************************************************)
(* The ZNP API mediator (ZnpApi): the ordered handler list walked by       *)
(* OnFrame, the request handlers installed by RawSReq, the waiters         *)
(* installed by WaitFor / WaitAfter through AddHandlerWithTimeout, and the *)
(* permanent event handlers installed by the constructor.                  *)
(*                                                                         *)
(* Everything runs on one event loop: an API call, the dispatch of one     *)
(* inbound frame and the firing of one timer are each one atomic step.     *)
(* Continuations run on stlab::immediate_executor, that is inside the step *)
(* that fulfils their antecedent.                                          *)
(***************************************************************************)
EXTENDS Integers, Sequences, FiniteSets, TLC

VARIABLES
    handlers,   \* handlers_ : the std::list<FrameHandler>, as handler references
    ops,        \* the API calls made so far, in call order (their captured arguments)
    req,        \* req[i]  : completion slot of the RawSReq package of call i
    wt,         \* wt[i]   : waiter of call i: slot of the WaitFor package, shared_info
    sent,       \* frames handed to raw_->SendFrame, in order
    replies,    \* frames the device has answered with, in order (device model only)
    signals,    \* signals[k] : slots connected to the signal of EventHandlers[k], in order
    subs,       \* subs[s]    : subscriber s (a slot of one of the signals)
    seen,       \* the subscriber calls made by the last OnFrame, in order
    fut         \* fut[i]     : outcome of the future that API call i returned

vars == <<handlers, ops, req, wt, sent, replies, signals, subs, seen, fut>>

-----------------------------------------------------------------------------
(* Bounds of the model.                                                    *)

\* API calls per behaviour under Spec and LiveSpec.
MaxOps == 2

\* WaitFor calls per behaviour under UnitSpec.
MaxUnitOps == 1

-----------------------------------------------------------------------------
(* Protocol constants (znp/znp.h).                                         *)

ZnpCommandType == [POLL |-> 0, SREQ |-> 2, AREQ |-> 4, SRSP |-> 6]

ZnpSubsystem == [RPC_Error |-> 0, SYS |-> 1, AF |-> 4, ZDO |-> 5, SAPI |-> 6]

ZnpCommand(subsystem, id) == <<subsystem, id>>

SysCommand ==
    [PING |-> ZnpCommand(ZnpSubsystem.SYS, 1),
     OSAL_NV_WRITE |-> ZnpCommand(ZnpSubsystem.SYS, 9),
     RESET_IND |-> ZnpCommand(ZnpSubsystem.SYS, 128)]

AfCommand ==
    [DATA_REQUEST |-> ZnpCommand(ZnpSubsystem.AF, 1),
     DATA_CONFIRM |-> ZnpCommand(ZnpSubsystem.AF, 128),
     INCOMING_MSG |-> ZnpCommand(ZnpSubsystem.AF, 129)]

ZdoCommand ==
    [BIND_REQ |-> ZnpCommand(ZnpSubsystem.ZDO, 33),
     EXT_REMOVE_GROUP |-> ZnpCommand(ZnpSubsystem.ZDO, 71),
     EXT_REMOVE_ALL_GROUP |-> ZnpCommand(ZnpSubsystem.ZDO, 72),
     BIND_RSP |-> ZnpCommand(ZnpSubsystem.ZDO, 161),
     STATE_CHANGE_IND |-> ZnpCommand(ZnpSubsystem.ZDO, 192),
     END_DEVICE_ANNCE_IND |-> ZnpCommand(ZnpSubsystem.ZDO, 193),
     TC_DEV_IND |-> ZnpCommand(ZnpSubsystem.ZDO, 202),
     PERMIT_JOIN_IND |-> ZnpCommand(ZnpSubsystem.ZDO, 203)]

SapiCommand == [GET_DEVICE_INFO |-> ZnpCommand(ZnpSubsystem.SAPI, 6)]

RPC_ErrorCommand == ZnpCommand(ZnpSubsystem.RPC_Error, 0)

\* DeviceInfo::DeviceState, the item WaitForState queries.
DeviceInfoDeviceState == 0

\* DeviceState values: HOLD, NWK_JOINING, ZB_COORD (started), NWK_ORPHAN.
DeviceState == [HOLD |-> 0, NWK_JOINING |-> 3, ZB_COORD |-> 9, NWK_ORPHAN |-> 10]

ZnpStatusSuccess == 0

\* ZdoBind's timeout_in_seconds; WaitAfter's default timeout_in_seconds.
BindTimeout == 15

DefaultTimeout == 0

Frame(type, command, payload) ==
    [type |-> type, command |-> command, payload |-> payload]

-----------------------------------------------------------------------------
(* Completion slots: the promise side of a stlab::package.                 *)

Pending == [st |-> "pending", val |-> <<>>, err |-> "", code |-> 0]

Value(data) == [st |-> "value", val |-> data, err |-> "", code |-> 0]

Failure(what, code) == [st |-> "error", val |-> <<>>, err |-> what, code |-> code]

\* A slot counts the invocations of its promise; out is the first outcome.
NewSlot == [n |-> 0, out |-> Pending]

Fulfil(slot, outcome) ==
    [slot EXCEPT !.n = @ + 1, !.out = IF slot.n = 0 THEN outcome ELSE @]

NoWaiter ==
    [made |-> FALSE, n |-> 0, out |-> Pending, active |-> FALSE, timer |-> "none"]

-----------------------------------------------------------------------------
(* Payload codec (znp/encoding.h).                                         *)

\* Encode(ShortAddress): 16 bits, little endian.
Encode(address) == <<address % 256, address \div 256>>

\* DecodeT<uint8_t, uint8_t, uint8_t>: three bytes, all of the data consumed.
DecodeT3(data) == [ok |-> Len(data) = 3, v |-> data]

\* Bytes that decoding an event's argument tuple consumes.
ShapeLen(shape, data) ==
    CASE shape = "ResetInfo" -> 6
      [] shape = "DeviceState" -> 1
      [] shape = "EndDeviceAnnounce" -> 13
      [] shape = "TrustCenterDevice" -> 12
      [] shape = "PermitJoin" -> 1
      [] shape = "IncomingMsg" -> IF Len(data) >= 17 THEN 17 + data[17] ELSE 17

\* Decode<ArgTuple> throws unless exactly the shape is present; DecodePartial
\* throws only when the data is shorter than the shape.
Decodes(shape, allow_partial, data) ==
    IF allow_partial
    THEN Len(data) >= ShapeLen(shape, data)
    ELSE Len(data) = ShapeLen(shape, data)

\* The argument tuple an event handler passes to its signal: the bytes the
\* decoder consumed.
DecodedEvent(shape, data) == SubSeq(data, 1, ShapeLen(shape, data))

\* DecodeT<uint8_t, uint8_t>: two bytes, all of the data consumed.
DecodeT2(data) ==
    IF Len(data) = 2
    THEN [st |-> "value", val |-> data, err |-> "", code |-> 0]
    ELSE [st |-> "error", val |-> <<>>, err |-> "Decode", code |-> 0]

\* Decode<Capability>: a 16-bit mask, all of the data consumed.
DecodeCapability(data) ==
    IF Len(data) = 2
    THEN [st |-> "value", val |-> data, err |-> "", code |-> 0]
    ELSE [st |-> "error", val |-> <<>>, err |-> "Decode", code |-> 0]

\* DecodePartial<DeviceState>: the first byte; trailing bytes are ignored.
DecodePartialDeviceState(data) ==
    IF Len(data) >= 1
    THEN [st |-> "value", val |-> <<data[1]>>, err |-> "", code |-> 0]
    ELSE [st |-> "error", val |-> <<>>, err |-> "Decode", code |-> 0]

-----------------------------------------------------------------------------
(* Status helpers.                                                         *)

\* CheckStatus returning the response with its status byte.
CheckStatusKeepingStatus(response) ==
    IF Len(response) < 1
    THEN Failure("Empty response received", 0)
    ELSE IF response[1] # ZnpStatusSuccess
         THEN Failure("ZNP Status was not success", 0)
         ELSE Value(response)

\* CheckStatus: throws on an empty response or a non-success first byte,
\* otherwise returns the bytes after the status byte.
CheckStatus(response) ==
    IF Len(response) < 1
    THEN Failure("Empty response received", 0)
    ELSE IF response[1] # ZnpStatusSuccess
         THEN Failure("ZNP Status was not success", 0)
         ELSE Value(SubSeq(response, 2, Len(response)))

\* CheckOnlyStatus without the test of the bytes after the status.
CheckOnlyStatusIgnoringTail(response) ==
    LET r == CheckStatus(response)
    IN  IF r.st = "error" THEN r ELSE Value(<<>>)

\* CheckOnlyStatus: CheckStatus, and throws when bytes follow the status.
CheckOnlyStatus(response) ==
    LET r == CheckStatus(response)
    IN  IF r.st = "error"
        THEN r
        ELSE IF Len(r.val) # 0
             THEN Failure("Empty response after status expected", 0)
             ELSE Value(<<>>)

\* The lambda of SapiGetDeviceInfoRaw: the response names the item asked
\* for, and the rest is the item.
GetDeviceInfoCheck(info, retval) ==
    IF Len(retval) < 1
    THEN Failure("Expected more data from GetDeviceInfo response", 0)
    ELSE IF retval[1] # info
         THEN Failure("Wrong DeviceInfo returned", 0)
         ELSE Value(SubSeq(retval, 2, Len(retval)))

\* AfDataConfirmCheck comparing the endpoint only.
AfDataConfirmCheckEndpointOnly(DstEndpoint, TransId, response) ==
    IF DstEndpoint # response[1]
    THEN Failure("AF_DATA_REQUEST & AF_DATA_CONFIRM synchronization mismatch!", 0)
    ELSE Value(<<>>)

\* The last lambda of AfDataRequest, on the decoded (endpoint, trans id).
AfDataConfirmCheck(DstEndpoint, TransId, response) ==
    IF <<DstEndpoint, TransId>> # response
    THEN Failure("AF_DATA_REQUEST & AF_DATA_CONFIRM synchronization mismatch!", 0)
    ELSE Value(<<>>)

\* future.then(...): a continuation runs on a value; a failure, and a future
\* that is still pending, pass through.
ThenCheckStatus(outcome) ==
    IF outcome.st = "value" THEN CheckStatus(outcome.val) ELSE outcome

ThenCheckOnlyStatus(outcome) ==
    IF outcome.st = "value" THEN CheckOnlyStatus(outcome.val) ELSE outcome

ThenDecodeT2(outcome) ==
    IF outcome.st = "value" THEN DecodeT2(outcome.val) ELSE outcome

ThenDecodeCapability(outcome) ==
    IF outcome.st = "value" THEN DecodeCapability(outcome.val) ELSE outcome

ThenAfDataConfirmCheck(DstEndpoint, TransId, outcome) ==
    IF outcome.st = "value"
    THEN AfDataConfirmCheck(DstEndpoint, TransId, outcome.val)
    ELSE outcome

\* SapiGetDeviceInfo<DeviceInfo::DeviceState>() on the outcome of its RawSReq.
ThenDeviceState(outcome) ==
    IF outcome.st # "value"
    THEN outcome
    ELSE LET item == GetDeviceInfoCheck(DeviceInfoDeviceState, outcome.val)
         IN  IF item.st = "value" THEN DecodePartialDeviceState(item.val) ELSE item

-----------------------------------------------------------------------------
(* The handler closures.  Each returns the FrameHandlerAction               *)
(* (stop_processing, remove_me) and what it does to its completion slot.   *)

Action(stop, remove, fulfil, out) ==
    [stop_processing |-> stop, remove_me |-> remove, fulfil |-> fulfil, out |-> out]

Pass == Action(FALSE, FALSE, FALSE, Pending)

\* Variants of RawSReqHandler: the type of a normal response is tested or
\* not, the type an RPC_Error names is tested or not, RPC_Error frames are
\* looked at or not, and a claimed frame stops the dispatch or not.
RawSReqHandlerVariant(possible_responses, f, test_type, test_err_type, rpc_errors, stop) ==
    IF (~test_type \/ f.type = ZnpCommandType.SRSP) /\ f.command \in possible_responses
    THEN Action(stop, TRUE, TRUE, Value(f.payload))
    ELSE IF rpc_errors /\ f.type = ZnpCommandType.SRSP /\ f.command = RPC_ErrorCommand
         THEN LET info == DecodeT3(f.payload)
              IN  IF ~info.ok
                  THEN Pass
                  ELSE LET err_command == ZnpCommand(info.v[2] % 16, info.v[3])
                           err_type == info.v[2] \div 16
                       IN  IF (~test_err_type \/ err_type = ZnpCommandType.SREQ)
                              /\ err_command \in possible_responses
                           THEN Action(stop, TRUE, TRUE,
                                       Failure("RPC Error", info.v[1]))
                           ELSE Pass
         ELSE Pass

RawSReqHandlerAnyType(possible_responses, f) ==
    RawSReqHandlerVariant(possible_responses, f, FALSE, TRUE, TRUE, TRUE)

RawSReqHandlerAnyErrorType(possible_responses, f) ==
    RawSReqHandlerVariant(possible_responses, f, TRUE, FALSE, TRUE, TRUE)

RawSReqHandlerWithoutRpcError(possible_responses, f) ==
    RawSReqHandlerVariant(possible_responses, f, TRUE, TRUE, FALSE, TRUE)

RawSReqHandlerNotStopping(possible_responses, f) ==
    RawSReqHandlerVariant(possible_responses, f, TRUE, TRUE, TRUE, FALSE)

\* The lambda RawSReq pushes on handlers_.
RawSReqHandler(possible_responses, f) ==
    IF f.type = ZnpCommandType.SRSP /\ f.command \in possible_responses
    THEN Action(TRUE, TRUE, TRUE, Value(f.payload))
    ELSE IF f.type = ZnpCommandType.SRSP /\ f.command = RPC_ErrorCommand
         THEN LET info == DecodeT3(f.payload)
              IN  IF ~info.ok
                  THEN Pass
                  ELSE LET err_command == ZnpCommand(info.v[2] % 16, info.v[3])
                           err_type == info.v[2] \div 16
                       IN  IF err_type = ZnpCommandType.SREQ
                              /\ err_command \in possible_responses
                           THEN Action(TRUE, TRUE, TRUE,
                                       Failure("RPC Error", info.v[1]))
                           ELSE Pass
         ELSE Pass

\* PrefixMatches with > for >= in the test of the sizes.
PrefixMatchesStrict(data_prefix, data) ==
    /\ Len(data) > Len(data_prefix)
    /\ \A k \in 1..Len(data_prefix) : data[k] = data_prefix[k]

\* memcmp(&data[0], &data_prefix[0], data_prefix.size()) == 0, guarded by
\* data.size() >= data_prefix.size(); with an empty prefix no byte is compared.
PrefixMatches(data_prefix, data) ==
    /\ Len(data) >= Len(data_prefix)
    /\ \A k \in 1..Len(data_prefix) : data[k] = data_prefix[k]

\* WaitForHandler matching on type and command only.
WaitForHandlerIgnoringPrefix(type, command, data_prefix, f) ==
    IF /\ f.type = type
       /\ f.command = command
       /\ Len(f.payload) >= Len(data_prefix)
    THEN Action(TRUE, TRUE, TRUE,
                Value(SubSeq(f.payload, Len(data_prefix) + 1, Len(f.payload))))
    ELSE Pass
\* WaitForHandler completing with the whole payload whatever the prefix.
WaitForHandlerWholePayload(type, command, data_prefix, f) ==
    IF /\ f.type = type
       /\ f.command = command
       /\ PrefixMatches(data_prefix, f.payload)
    THEN Action(TRUE, TRUE, TRUE, Value(f.payload))
    ELSE Pass

\* The frame handler WaitFor passes to AddHandlerWithTimeout.
WaitForHandler(type, command, data_prefix, f) ==
    IF /\ f.type = type
       /\ f.command = command
       /\ PrefixMatches(data_prefix, f.payload)
    THEN IF Len(data_prefix) = 0
         THEN Action(TRUE, TRUE, TRUE, Value(f.payload))
         ELSE Action(TRUE, TRUE, TRUE,
                     Value(SubSeq(f.payload, Len(data_prefix) + 1, Len(f.payload))))
    ELSE Pass

\* The timeout handler WaitFor passes to AddHandlerWithTimeout.
WaitForTimeout == Failure("Timeout", 0)

\* SimpleEventHandler letting the dispatch go on after it raised the signal.
SimpleEventHandlerNotStopping(ev, f) ==
    IF f.type # ev.type \/ f.command # ev.command
    THEN Pass
    ELSE IF ~Decodes(ev.shape, ev.allow_partial, f.payload)
         THEN Pass
         ELSE Action(FALSE, FALSE, TRUE, Value(f.payload))

\* SimpleEventHandler asking to be removed after it raised the signal.
SimpleEventHandlerRemovingItself(ev, f) ==
    IF f.type # ev.type \/ f.command # ev.command
    THEN Pass
    ELSE IF ~Decodes(ev.shape, ev.allow_partial, f.payload)
         THEN Pass
         ELSE Action(TRUE, TRUE, TRUE, Value(f.payload))
\* SimpleEventHandler claiming a frame it could not decode.
SimpleEventHandlerClaimingMalformed(ev, f) ==
    IF f.type # ev.type \/ f.command # ev.command
    THEN Pass
    ELSE IF ~Decodes(ev.shape, ev.allow_partial, f.payload)
         THEN Action(TRUE, FALSE, FALSE, Pending)
         ELSE Action(TRUE, FALSE, TRUE, Value(f.payload))

\* The lambda AddSimpleEventHandler pushes on handlers_.  fulfil tells
\* whether the signal is raised.
SimpleEventHandler(ev, f) ==
    IF f.type # ev.type \/ f.command # ev.command
    THEN Pass
    ELSE IF ~Decodes(ev.shape, ev.allow_partial, f.payload)
         THEN Pass
         ELSE Action(TRUE, FALSE, TRUE, Value(f.payload))

\* The event handlers the constructor registers, in order.
Event(command, shape, allow_partial) ==
    [type |-> ZnpCommandType.AREQ, command |-> command, shape |-> shape,
     allow_partial |-> allow_partial]

EventHandlers ==
    << Event(SysCommand.RESET_IND, "ResetInfo", FALSE),
       Event(ZdoCommand.STATE_CHANGE_IND, "DeviceState", FALSE),
       Event(ZdoCommand.END_DEVICE_ANNCE_IND, "EndDeviceAnnounce", FALSE),
       Event(ZdoCommand.TC_DEV_IND, "TrustCenterDevice", FALSE),
       Event(ZdoCommand.PERMIT_JOIN_IND, "PermitJoin", FALSE),
       Event(AfCommand.INCOMING_MSG, "IncomingMsg", TRUE) >>

\* A handler reference: kind "event" (id: index in EventHandlers), "req" or
\* "wait" (id: index of the API call that installed it).
Handler(kind, id) == [kind |-> kind, id |-> id]

-----------------------------------------------------------------------------
(* The API calls: what each public method captures in its closures.        *)

\* api: the method; command, possible_responses: the RawSReq arguments;
\* wait: the RawSReq future is passed (through CheckOnlyStatus) to WaitAfter;
\* type, wcommand, timeout_in_seconds, data_prefix: the WaitFor arguments.
Call(api, command, possible_responses, wait, type, wcommand, timeout_in_seconds, data_prefix, DstEndpoint, TransId) ==
    [api |-> api, command |-> command, possible_responses |-> possible_responses,
     wait |-> wait, type |-> type, wcommand |-> wcommand,
     timeout_in_seconds |-> timeout_in_seconds, data_prefix |-> data_prefix,
     DstEndpoint |-> DstEndpoint, TransId |-> TransId]

\* RawSReq(command, payload) is RawSReq(command, {command}, payload).
RequestOnly(api, command, possible_responses) ==
    Call(api, command, possible_responses, FALSE, ZnpCommandType.AREQ,
         ZnpCommand(0, 0), DefaultTimeout, <<>>, 0, 0)

SysPingCall == RequestOnly("SysPing", SysCommand.PING, {SysCommand.PING})

ZdoExtRemoveGroupCall ==
    RequestOnly("ZdoExtRemoveGroup", ZdoCommand.EXT_REMOVE_GROUP,
                {ZdoCommand.EXT_REMOVE_GROUP})

ZdoExtRemoveAllGroupCall ==
    RequestOnly("ZdoExtRemoveAllGroup", ZdoCommand.EXT_REMOVE_ALL_GROUP,
                {ZdoCommand.EXT_REMOVE_ALL_GROUP, ZdoCommand.EXT_REMOVE_GROUP})

AfDataRequestCall(DstEndpoint, TransId) ==
    Call("AfDataRequest", AfCommand.DATA_REQUEST, {AfCommand.DATA_REQUEST},
         TRUE, ZnpCommandType.AREQ, AfCommand.DATA_CONFIRM, DefaultTimeout, <<>>,
         DstEndpoint, TransId)

ZdoBindCall(DstAddr) ==
    Call("ZdoBind", ZdoCommand.BIND_REQ, {ZdoCommand.BIND_REQ},
         TRUE, ZnpCommandType.AREQ, ZdoCommand.BIND_RSP, BindTimeout,
         Encode(DstAddr), 0, 0)

\* WaitFor called on its own (it is private: only the unit specification does).
WaitForCall(type, command, timeout_in_seconds, data_prefix) ==
    Call("WaitFor", ZnpCommand(0, 0), {}, FALSE, type, command,
         timeout_in_seconds, data_prefix, 0, 0)

-----------------------------------------------------------------------------
(* Inputs.                                                                 *)

\* (DstEndpoint, TransId) of the data requests, DstAddr of the binds.
DataRequests == {<<1, 66>>}

ShortAddresses == {4660}

Srsp(command, payload) == Frame(ZnpCommandType.SRSP, command, payload)

Areq(command, payload) == Frame(ZnpCommandType.AREQ, command, payload)

\* [error_code, packed, id] of an RPC_Error frame.
RpcError(error_code, type, command) ==
    Srsp(RPC_ErrorCommand, <<error_code, type * 16 + command[1], command[2]>>)

SrspFrames ==
    { Srsp(SysCommand.PING, <<121, 0>>),
      Srsp(ZdoCommand.EXT_REMOVE_GROUP, <<0>>),
      Srsp(ZdoCommand.EXT_REMOVE_GROUP, <<1>>),
      Srsp(ZdoCommand.EXT_REMOVE_ALL_GROUP, <<0>>),
      Srsp(AfCommand.DATA_REQUEST, <<0>>),
      Srsp(AfCommand.DATA_REQUEST, <<1>>),
      Srsp(ZdoCommand.BIND_REQ, <<0>>) }

RpcErrorFrames ==
    { RpcError(2, ZnpCommandType.SREQ, SysCommand.PING),
      RpcError(3, ZnpCommandType.SREQ, ZdoCommand.EXT_REMOVE_GROUP),
      RpcError(2, ZnpCommandType.AREQ, ZdoCommand.EXT_REMOVE_GROUP),
      RpcError(2, ZnpCommandType.SREQ, ZdoCommand.BIND_REQ),
      Srsp(RPC_ErrorCommand, <<2, 33>>),
      Srsp(RPC_ErrorCommand, <<2, 33, 1, 0>>) }

AreqFrames ==
    { Areq(AfCommand.DATA_CONFIRM, <<0, 1, 66>>),
      Areq(AfCommand.DATA_CONFIRM, <<0, 2, 66>>),
      Areq(ZdoCommand.BIND_RSP, <<52, 18, 0>>),
      Areq(ZdoCommand.BIND_RSP, <<53, 18, 0>>),
      Areq(ZdoCommand.BIND_RSP, <<52>>),
      Areq(ZdoCommand.STATE_CHANGE_IND, <<9>>),
      Areq(ZdoCommand.STATE_CHANGE_IND, <<9, 0>>),
      Areq(SysCommand.PING, <<121, 0>>) }

SreqFrames == { Frame(ZnpCommandType.SREQ, SysCommand.PING, <<121, 0>>) }

Frames == SrspFrames \cup RpcErrorFrames \cup AreqFrames \cup SreqFrames

-----------------------------------------------------------------------------
(* Signals and their subscribers.  A subscriber is a slot connected to the *)
(* signal of one event: a callback of the application, which returns       *)
(* (kind "plain") or throws (kind "throws"), or the lambda WaitForState    *)
(* connects to zdo_on_state_change_ for API call op (kind "state"), with   *)
(* the promise of that call's package.  A callback of kind "calls" issues  *)
(* request op (RawSReq) the first time it is called.                       *)

Subscriber(kind, op) == [kind |-> kind, op |-> op, n |-> 0, out |-> Pending]

\* The index of zdo_on_state_change_ in EventHandlers.
StateChangeEvent == 2

NoSignals == [k \in 1..Len(EventHandlers) |-> <<>>]

\* signal.connect(...): a new slot at the back of the list of signal k.
Connect(st, k, subscriber) ==
    [st EXCEPT !.subs = Append(@, subscriber),
               !.signals[k] = Append(@, Len(st.subs) + 1)]

\* connection.disconnect() of subscriber s.
Disconnect(sigs, s) ==
    [k \in DOMAIN sigs |-> SelectSeq(sigs[k], LAMBDA x : x # s)]

\* The slot WaitForState connects, called with state: it completes and
\* disconnects on an end state (tested first) or on a state that is not
\* allowed, and does nothing on any other.
StateSubscriberCall(st, s, state) ==
    LET o == ops[st.subs[s].op]
    IN  IF state \in o.end_states
        THEN [st EXCEPT !.signals = Disconnect(@, s),
                        !.subs[s] = Fulfil(@, Value(<<state>>))]
        ELSE IF state \notin o.allowed_states
             THEN [st EXCEPT !.signals = Disconnect(@, s),
                             !.subs[s] = Fulfil(@, Failure("Non-allowed state reached", 0))]
             ELSE st

\* One slot called with the decoded arguments.
SlotCall(st, s, arguments) ==
    LET called == [st EXCEPT !.seen = Append(@, [sub |-> s, arguments |-> arguments])]
    IN  IF st.subs[s].kind = "state"
        THEN StateSubscriberCall(called, s, arguments[1])
        ELSE IF st.subs[s].kind = "calls" /\ st.subs[s].n = 0
             THEN [called EXCEPT !.hs = Append(@, Handler("req", st.subs[s].op)),
                                 !.subs[s].n = 1]
             ELSE called

\* signal(arguments...): the slots connected when the call starts are called
\* in connection order, a slot disconnected meanwhile is skipped, and an
\* exception thrown by a slot ends the call and leaves it.
RECURSIVE CallSlots(_, _, _, _)
CallSlots(st, slots, k, arguments) ==
    IF slots = <<>>
    THEN [st |-> st, thrown |-> FALSE]
    ELSE LET s == Head(slots)
         IN  IF \A j \in 1..Len(st.signals[k]) : st.signals[k][j] # s
             THEN CallSlots(st, Tail(slots), k, arguments)
             ELSE IF st.subs[s].kind = "throws"
                  THEN [st |-> SlotCall(st, s, arguments), thrown |-> TRUE]
                  ELSE CallSlots(SlotCall(st, s, arguments), Tail(slots), k, arguments)

\* Raise calling the first connected slot only.
RaiseFirstSlotOnly(st, k, arguments) ==
    CallSlots(st, IF st.signals[k] = <<>> THEN <<>> ELSE <<Head(st.signals[k])>>,
              k, arguments)

\* polyfill::apply(signal, arguments) in the handler of event k.
Raise(st, k, arguments) == CallSlots(st, st.signals[k], k, arguments)

-----------------------------------------------------------------------------
(* Installing handlers.  A mediator state st is [hs, req, wt, signals,     *)
(* subs, seen]: the handler list, the request slots, the waiters, the      *)
(* signals with their subscribers and the subscriber calls of the dispatch *)
(* under way.                                                              *)

\* NewWaiter arming a timer whatever the timeout.
NewWaiterAlwaysArmed(timeout_in_seconds) ==
    [made |-> TRUE, n |-> 0, out |-> Pending, active |-> TRUE, timer |-> "armed"]
\* shared_info of a timed waiter: active, and the armed deadline_timer.  A
\* waiter with timeout_in_seconds <= 0 has neither.
NewWaiter(timeout_in_seconds) ==
    [made |-> TRUE, n |-> 0, out |-> Pending,
     active |-> timeout_in_seconds > 0,
     timer |-> IF timeout_in_seconds <= 0 THEN "none" ELSE "armed"]

\* AddHandlerWithTimeout: push_back of the bare handler, or of the wrapper
\* after arming the timer.
AddHandlerWithTimeout(st, i, timeout_in_seconds) ==
    [st EXCEPT !.hs = Append(@, Handler("wait", i)),
               !.wt[i] = NewWaiter(timeout_in_seconds)]

\* WaitFor for API call i.
WaitFor(st, i) == AddHandlerWithTimeout(st, i, ops[i].timeout_in_seconds)

\* WaitAfter installing the waiter on any completion of the antecedent.
WaitAfterAnyCompletion(st, i, outcome) ==
    IF ops[i].wait THEN WaitFor(st, i) ELSE st

\* The continuation WaitAfter attaches to first_request: it runs when the
\* antecedent (RawSReq(...).then(CheckOnlyStatus)) completes without failure.
WaitAfter(st, i, outcome) ==
    IF /\ ops[i].wait
       /\ outcome.st = "value"
       /\ CheckOnlyStatus(outcome.val).st = "value"
    THEN WaitFor(st, i)
    ELSE st

\* WaitForState without the test of end_states in the continuation.
WaitForStateThenAlwaysSubscribing(st, i, outcome) ==
    IF ops[i].api # "WaitForState" \/ ThenDeviceState(outcome).st # "value"
    THEN st
    ELSE Connect(st, StateChangeEvent, Subscriber("state", i))

\* The continuation WaitForState attaches to SapiGetDeviceInfo: with a state
\* that is allowed and not an end state it connects the slot.
WaitForStateThen(st, i, outcome) ==
    IF ops[i].api # "WaitForState" \/ ThenDeviceState(outcome).st # "value"
    THEN st
    ELSE LET state == ThenDeviceState(outcome).val[1]
         IN  IF state \in ops[i].end_states \/ state \notin ops[i].allowed_states
             THEN st
             ELSE Connect(st, StateChangeEvent, Subscriber("state", i))

\* TimerCallback without the call of timeout_handler.
TimerCallbackSilent(w) ==
    [w EXCEPT !.active = FALSE, !.timer = "fired"]

\* TimerCallback without the test of shared_info->active.
TimerCallbackUnguarded(w) ==
    [Fulfil(w, WaitForTimeout) EXCEPT !.active = FALSE, !.timer = "fired"]

\* The async_wait callback of AddHandlerWithTimeout, on waiter w.
TimerCallback(w) ==
    IF ~w.active
    THEN [w EXCEPT !.timer = "fired"]
    ELSE [Fulfil(w, WaitForTimeout) EXCEPT !.active = FALSE, !.timer = "fired"]

\* WaiterHandler claiming the frame when its timer has fired.
WaiterHandlerStoppingWhenExpired(w, o, f) ==
    LET action == WaitForHandler(o.type, o.wcommand, o.data_prefix, f)
    IN  IF w.timer = "none"
        THEN [action |-> action, active |-> w.active]
        ELSE IF ~w.active
             THEN [action |-> Action(TRUE, TRUE, FALSE, Pending), active |-> FALSE]
             ELSE [action |-> action,
                   active |-> IF action.remove_me THEN FALSE ELSE w.active]
\* WaiterHandler without the test of shared_info->active.
WaiterHandlerUnguarded(w, o, f) ==
    LET action == WaitForHandler(o.type, o.wcommand, o.data_prefix, f)
    IN  [action |-> action,
         active |-> IF action.remove_me /\ w.timer # "none" THEN FALSE ELSE w.active]

\* The wrapper AddHandlerWithTimeout pushes for a timed waiter (the bare
\* WaitFor handler for an untimed one): the action and the new active flag.
WaiterHandler(w, o, f) ==
    LET action == WaitForHandler(o.type, o.wcommand, o.data_prefix, f)
    IN  IF w.timer = "none"
        THEN [action |-> action, active |-> w.active]
        ELSE IF ~w.active
             THEN [action |-> Action(FALSE, TRUE, FALSE, Pending), active |-> FALSE]
             ELSE [action |-> action,
                   active |-> IF action.remove_me THEN FALSE ELSE w.active]

-----------------------------------------------------------------------------
(* OnFrame.                                                                *)

\* (*it)(type, command, payload): the action of handler h and the mediator
\* state after it, continuations included.
Invoke(h, f, st) ==
    CASE h.kind = "event" ->
            LET ev == EventHandlers[h.id]
                action == SimpleEventHandler(ev, f)
                r == Raise(st, h.id, DecodedEvent(ev.shape, f.payload))
            IN  IF action.fulfil
                THEN [action |-> action, st |-> r.st, thrown |-> r.thrown]
                ELSE [action |-> action, st |-> st, thrown |-> FALSE]
      [] h.kind = "req" ->
            LET action == RawSReqHandler(ops[h.id].possible_responses, f)
            IN  [action |-> action,
                 st |-> IF action.fulfil
                        THEN WaitForStateThen(
                                 WaitAfter([st EXCEPT !.req[h.id] = Fulfil(@, action.out)],
                                           h.id, action.out),
                                 h.id, action.out)
                        ELSE st,
                 thrown |-> FALSE]
      [] h.kind = "wait" ->
            LET r == WaiterHandler(st.wt[h.id], ops[h.id], f)
                w == [st.wt[h.id] EXCEPT !.active = r.active]
            IN  [action |-> r.action,
                 st |-> [st EXCEPT !.wt[h.id] =
                            IF r.action.fulfil THEN Fulfil(w, r.action.out) ELSE w],
                 thrown |-> FALSE]

RemoveAt(seq, k) == SubSeq(seq, 1, k - 1) \o SubSeq(seq, k + 1, Len(seq))

Invocation(h, action) ==
    [h |-> h, stop_processing |-> action.stop_processing,
     remove_me |-> action.remove_me]

\* Walk with the test of stop_processing left out: the loop always runs to
\* the end of the list.
RECURSIVE WalkIgnoringStop(_, _, _, _)
WalkIgnoringStop(st, it, trace, f) ==
    IF it > Len(st.hs)
    THEN [st |-> st, log |-> trace, thrown |-> FALSE]
    ELSE LET r == Invoke(st.hs[it], f, st)
             hs == IF r.action.remove_me THEN RemoveAt(r.st.hs, it) ELSE r.st.hs
             next == IF r.action.remove_me THEN it ELSE it + 1
             st2 == [r.st EXCEPT !.hs = hs]
             trace2 == Append(trace, Invocation(st.hs[it], r.action))
         IN  IF r.thrown
             THEN [st |-> r.st, log |-> trace, thrown |-> TRUE]
             ELSE WalkIgnoringStop(st2, next, trace2, f)

\* Walk without the erase on remove_me.
RECURSIVE WalkNotErasing(_, _, _, _)
WalkNotErasing(st, it, trace, f) ==
    IF it > Len(st.hs)
    THEN [st |-> st, log |-> trace, thrown |-> FALSE]
    ELSE LET r == Invoke(st.hs[it], f, st)
             trace2 == Append(trace, Invocation(st.hs[it], r.action))
         IN  IF r.thrown
             THEN [st |-> r.st, log |-> trace, thrown |-> TRUE]
             ELSE IF r.action.stop_processing
                  THEN [st |-> r.st, log |-> trace2, thrown |-> FALSE]
                  ELSE WalkNotErasing(r.st, it + 1, trace2, f)
\* The loop of OnFrame from iterator position it: erase on remove_me,
\* advance otherwise, return on stop_processing.  There is no try block: an
\* exception that leaves a handler leaves the loop and OnFrame (thrown); log
\* holds the invocations that returned.
RECURSIVE Walk(_, _, _, _)
Walk(st, it, trace, f) ==
    IF it > Len(st.hs)
    THEN [st |-> st, log |-> trace, thrown |-> FALSE]
    ELSE LET r == Invoke(st.hs[it], f, st)
             hs == IF r.action.remove_me THEN RemoveAt(r.st.hs, it) ELSE r.st.hs
             next == IF r.action.remove_me THEN it ELSE it + 1
             st2 == [r.st EXCEPT !.hs = hs]
             trace2 == Append(trace, Invocation(st.hs[it], r.action))
         IN  IF r.thrown
             THEN [st |-> r.st, log |-> trace, thrown |-> TRUE]
             ELSE IF r.action.stop_processing
                  THEN [st |-> st2, log |-> trace2, thrown |-> FALSE]
                  ELSE Walk(st2, next, trace2, f)

\* The subscriber of WaitForState call i, once connected.
StateSubscriberOf(st, i) ==
    CHOOSE s \in 1..Len(st.subs) : st.subs[s].kind = "state" /\ st.subs[s].op = i

\* RawSReq(...).then(CheckOnlyStatus), the antecedent of every WaitAfter.
FirstRequest(st, i) == ThenCheckOnlyStatus(st.req[i].out)

\* The future WaitAfter returns: the failure of the antecedent, or the
\* future of the WaitFor its continuation called.
WaitAfterFuture(st, i) ==
    IF FirstRequest(st, i).st # "value" THEN FirstRequest(st, i) ELSE st.wt[i].out

\* The future WaitForState returns.
WaitForStateFuture(st, i) ==
    LET d == ThenDeviceState(st.req[i].out)
    IN  IF d.st # "value"
        THEN d
        ELSE IF d.val[1] \in ops[i].end_states
             THEN Value(d.val)
             ELSE IF d.val[1] \notin ops[i].allowed_states
                  THEN Failure("Invalid state reached", 0)
                  ELSE st.subs[StateSubscriberOf(st, i)].out

\* The outcome of the future API call i returned, in mediator state st: the
\* continuations of the call applied to its completion slots.
Future(st, i) ==
    LET o == ops[i]
    IN  CASE o.api = "SysPing" -> ThenDecodeCapability(st.req[i].out)
          [] o.api \in {"ZdoExtRemoveGroup", "ZdoExtRemoveAllGroup", "SysOsalNvWriteRaw"} ->
                ThenCheckOnlyStatus(st.req[i].out)
          [] o.api = "AfDataRequest" ->
                ThenAfDataConfirmCheck(o.DstEndpoint, o.TransId,
                    ThenDecodeT2(ThenCheckStatus(WaitAfterFuture(st, i))))
          [] o.api = "ZdoBind" -> ThenCheckOnlyStatus(WaitAfterFuture(st, i))
          [] o.api = "WaitFor" -> st.wt[i].out
          [] o.api = "WaitForState" -> WaitForStateFuture(st, i)
          [] o.api = "CheckStatus" -> CheckStatus(o.response)
          [] o.api = "CheckOnlyStatus" -> CheckOnlyStatus(o.response)

Futures(st) == [i \in 1..Len(ops) |-> Future(st, i)]

Dispatch(f) ==
    Walk([hs |-> handlers, req |-> req, wt |-> wt, signals |-> signals,
          subs |-> subs, seen |-> <<>>], 1, <<>>, f)

\* OnFrame(type, command, payload) as a step.  Dispatch(f).log is the
\* sequence of handler invocations the loop makes.
Deliver(f) ==
    \E r \in {Dispatch(f)} :
        /\ handlers' = r.st.hs
        /\ req' = r.st.req
        /\ wt' = r.st.wt
        /\ signals' = r.st.signals
        /\ subs' = r.st.subs
        /\ seen' = r.st.seen
        /\ fut' = Futures(r.st)
        /\ UNCHANGED ops

-----------------------------------------------------------------------------
(* The steps of the program.                                               *)

\* ZnpApi::ZnpApi: the six event handlers, nothing pending.
Init ==
    /\ handlers = [k \in 1..Len(EventHandlers) |-> Handler("event", k)]
    /\ ops = <<>>
    /\ req = <<>>
    /\ wt = <<>>
    /\ sent = <<>>
    /\ replies = <<>>
    /\ signals = NoSignals
    /\ subs = <<>>
    /\ seen = <<>>
    /\ fut = <<>>

\* RawSReq installing the follow-up waiter at call time, before the SRSP.
RawSReqWaitingAtOnce(o) ==
    /\ handlers' = IF o.wait
                   THEN handlers \o <<Handler("req", Len(ops) + 1), Handler("wait", Len(ops) + 1)>>
                   ELSE Append(handlers, Handler("req", Len(ops) + 1))
    /\ ops' = Append(ops, o)
    /\ req' = Append(req, NewSlot)
    /\ wt' = Append(wt, IF o.wait THEN NewWaiter(o.timeout_in_seconds) ELSE NoWaiter)
    /\ sent' = Append(sent, Frame(ZnpCommandType.SREQ, o.command, <<>>))
    /\ fut' = Append(fut, Pending)
    /\ UNCHANGED <<replies, signals, subs, seen>>
\* RawSReq for a new API call o: push_back of the request handler, SendFrame.
RawSReq(o) ==
    /\ handlers' = Append(handlers, Handler("req", Len(ops) + 1))
    /\ ops' = Append(ops, o)
    /\ req' = Append(req, NewSlot)
    /\ wt' = Append(wt, NoWaiter)
    /\ sent' = Append(sent, Frame(ZnpCommandType.SREQ, o.command, <<>>))
    /\ fut' = Append(fut, Pending)
    /\ UNCHANGED <<replies, signals, subs, seen>>

SysPing ==
    /\ Len(ops) < MaxOps
    /\ RawSReq(SysPingCall)

ZdoExtRemoveGroup ==
    /\ Len(ops) < MaxOps
    /\ RawSReq(ZdoExtRemoveGroupCall)

ZdoExtRemoveAllGroup ==
    /\ Len(ops) < MaxOps
    /\ RawSReq(ZdoExtRemoveAllGroupCall)

AfDataRequest ==
    /\ Len(ops) < MaxOps
    /\ \E d \in DataRequests : RawSReq(AfDataRequestCall(d[1], d[2]))

ZdoBind ==
    /\ Len(ops) < MaxOps
    /\ \E a \in ShortAddresses : RawSReq(ZdoBindCall(a))

\* The deadline_timer of waiter i expires and its callback runs.
TimerFires(i) ==
    /\ i \in 1..Len(wt)
    /\ wt[i].timer = "armed"
    /\ wt' = [wt EXCEPT ![i] = TimerCallback(@)]
    /\ fut' = Futures([hs |-> handlers, req |-> req, wt |-> wt', subs |-> subs])
    /\ UNCHANGED <<handlers, ops, req, sent, replies, signals, subs, seen>>

TimerFire == \E i \in 1..Len(wt) : TimerFires(i)

\* The raw layer delivers any frame.
OnFrame ==
    \E f \in Frames :
        /\ Deliver(f)
        /\ UNCHANGED <<sent, replies>>

Next ==
    \/ SysPing
    \/ ZdoExtRemoveGroup
    \/ ZdoExtRemoveAllGroup
    \/ AfDataRequest
    \/ ZdoBind
    \/ TimerFire
    \/ OnFrame

Spec == Init /\ [][Next]_vars

-----------------------------------------------------------------------------
(* The device: it answers every SREQ it was sent, in the order they were   *)
(* sent, with one SRSP carrying the same command or with one RPC_Error     *)
(* naming it, and it sends AREQ frames at any time.                        *)

ReplyPayloads == {<<0>>, <<1>>}

RpcErrorCodes == {2}

ReplyFrames(sreq) ==
    {Srsp(sreq.command, payload) : payload \in ReplyPayloads}
        \cup {RpcError(code, ZnpCommandType.SREQ, sreq.command) : code \in RpcErrorCodes}

DeviceReply ==
    /\ Len(replies) < Len(sent)
    /\ \E f \in ReplyFrames(sent[Len(replies) + 1]) :
          /\ Deliver(f)
          /\ replies' = Append(replies, f)
    /\ UNCHANGED sent

DeviceAreq ==
    \E f \in AreqFrames :
        /\ Deliver(f)
        /\ UNCHANGED <<sent, replies>>

LiveNext ==
    \/ SysPing
    \/ ZdoExtRemoveGroup
    \/ ZdoExtRemoveAllGroup
    \/ AfDataRequest
    \/ ZdoBind
    \/ TimerFire
    \/ DeviceReply
    \/ DeviceAreq

\* The device does answer, and an armed timer does fire.  The first fairness
\* condition is WF_vars(DeviceReply) written out: DeviceReply is enabled
\* exactly while a sent SREQ has no reply, and every step of it changes
\* replies.
LiveSpec ==
    /\ Init
    /\ [][LiveNext]_vars
    /\ ([]<>(Len(replies) >= Len(sent)) \/ []<><<DeviceReply>>_vars)
    /\ \A i \in 1..MaxOps : WF_vars(TimerFires(i))

-----------------------------------------------------------------------------
(* WaitFor on its own: any type, command, timeout and prefix, and any      *)
(* frame delivered afterwards.                                             *)

UnitTypes == {ZnpCommandType.AREQ, ZnpCommandType.SRSP}

UnitCommands == {ZdoCommand.STATE_CHANGE_IND, ZdoCommand.BIND_RSP}

UnitPrefixes == {<<>>, <<9>>, <<52, 18>>}

UnitPayloads == {<<>>, <<9>>, <<52, 18>>, <<52, 18, 0>>, <<53, 18, 0>>}

UnitFrames ==
    {Frame(type, command, payload) :
        type \in UnitTypes, command \in UnitCommands, payload \in UnitPayloads}

WaitForAlone ==
    /\ Len(ops) < MaxUnitOps
    /\ \E type \in UnitTypes, command \in UnitCommands,
          timeout_in_seconds \in {DefaultTimeout, BindTimeout},
          data_prefix \in UnitPrefixes :
          LET st == AddHandlerWithTimeout(
                        [hs |-> handlers, req |-> Append(req, NewSlot),
                         wt |-> Append(wt, NoWaiter)],
                        Len(ops) + 1, timeout_in_seconds)
          IN  /\ ops' = Append(ops, WaitForCall(type, command, timeout_in_seconds,
                                                data_prefix))
              /\ handlers' = st.hs
              /\ req' = st.req
              /\ wt' = st.wt
    /\ fut' = Append(fut, Pending)
    /\ UNCHANGED <<sent, replies, signals, subs, seen>>

OnUnitFrame ==
    \E f \in UnitFrames :
        /\ Deliver(f)
        /\ UNCHANGED <<sent, replies>>

UnitNext ==
    \/ WaitForAlone
    \/ TimerFire
    \/ OnUnitFrame

UnitSpec == Init /\ [][UnitNext]_vars

-----------------------------------------------------------------------------
(* Events: the application connects callbacks to the signals, requests and *)
(* a waiter are pending, and the device sends event frames, well formed    *)
(* and malformed.                                                          *)

\* Callbacks the application connects per behaviour.
MaxSubs == 2

Bytes(n, b) == [k \in 1..n |-> b]

\* One frame that decodes per event, INCOMING_MSG also with trailing bytes.
GoodEventFrames ==
    { Areq(SysCommand.RESET_IND, Bytes(6, 2)),
      Areq(ZdoCommand.STATE_CHANGE_IND, <<DeviceState.ZB_COORD>>),
      Areq(ZdoCommand.END_DEVICE_ANNCE_IND, Bytes(13, 7)),
      Areq(ZdoCommand.TC_DEV_IND, Bytes(12, 5)),
      Areq(ZdoCommand.PERMIT_JOIN_IND, <<60>>),
      Areq(AfCommand.INCOMING_MSG, Bytes(17, 0)),
      Areq(AfCommand.INCOMING_MSG, Bytes(20, 0)) }

\* Frames with an event command that do not decode: too short, or with
\* trailing bytes on an event registered with allow_partial = false.
BadEventFrames ==
    { Areq(SysCommand.RESET_IND, Bytes(5, 2)),
      Areq(ZdoCommand.STATE_CHANGE_IND, <<>>),
      Areq(ZdoCommand.STATE_CHANGE_IND, <<DeviceState.ZB_COORD, 0>>),
      Areq(ZdoCommand.PERMIT_JOIN_IND, <<60, 0>>),
      Areq(AfCommand.INCOMING_MSG, Bytes(16, 0)) }

EventFrames == GoodEventFrames \cup BadEventFrames

\* The application connects a callback to the signal of event k.
Subscribe ==
    /\ Len(subs) < MaxSubs
    /\ \E k \in 1..Len(EventHandlers) :
          /\ subs' = Append(subs, Subscriber("plain", 0))
          /\ signals' = [signals EXCEPT ![k] = Append(@, Len(subs) + 1)]
    /\ UNCHANGED <<handlers, ops, req, wt, sent, replies, seen, fut>>

\* WaitFor called on its own for the command of an event, without timeout
\* and without prefix.
WaitForEvent ==
    /\ Len(ops) < MaxUnitOps
    /\ LET st == AddHandlerWithTimeout(
                     [hs |-> handlers, req |-> Append(req, NewSlot),
                      wt |-> Append(wt, NoWaiter)],
                     Len(ops) + 1, DefaultTimeout)
       IN  /\ ops' = Append(ops, WaitForCall(ZnpCommandType.AREQ,
                                             EventHandlers[StateChangeEvent].command,
                                             DefaultTimeout, <<>>))
           /\ handlers' = st.hs
           /\ req' = st.req
           /\ wt' = st.wt
    /\ fut' = Append(fut, Pending)
    /\ UNCHANGED <<sent, replies, signals, subs, seen>>

OnEventFrame ==
    \E f \in EventFrames :
        /\ Deliver(f)
        /\ UNCHANGED <<sent, replies>>

EventNext ==
    \/ Subscribe
    \/ SysPing
    \/ WaitForEvent
    \/ OnEventFrame

EventSpec == Init /\ [][EventNext]_vars

-----------------------------------------------------------------------------
(* The state helper: WaitForState calls, the answers of the device-info    *)
(* query and the state-change events.                                      *)

\* WaitForState(end_states, allowed_states): the RawSReq of
\* SapiGetDeviceInfoRaw, and the two sets its continuation captures.
WaitForStateCall(end_states, allowed_states) ==
    [end_states |-> end_states, allowed_states |-> allowed_states]
        @@ RequestOnly("WaitForState", SapiCommand.GET_DEVICE_INFO,
                       {SapiCommand.GET_DEVICE_INFO})

\* (end_states, allowed_states) of the calls made: the usual pair, and one
\* whose end state is not among the allowed states.
StateWaits ==
    { <<{DeviceState.ZB_COORD},
        {DeviceState.HOLD, DeviceState.NWK_JOINING, DeviceState.ZB_COORD}>>,
      <<{DeviceState.ZB_COORD}, {DeviceState.HOLD}>> }

States ==
    {DeviceState.HOLD, DeviceState.NWK_JOINING, DeviceState.ZB_COORD,
     DeviceState.NWK_ORPHAN}

StateChangeFrames == {Areq(ZdoCommand.STATE_CHANGE_IND, <<s>>) : s \in States}

\* Answers to GET_DEVICE_INFO: the state item, another item, no item data,
\* nothing at all.
DeviceInfoFrames ==
    {Srsp(SapiCommand.GET_DEVICE_INFO, <<DeviceInfoDeviceState, s>>) : s \in States}
        \cup {Srsp(SapiCommand.GET_DEVICE_INFO, p) :
                 p \in {<<1, DeviceState.ZB_COORD>>, <<DeviceInfoDeviceState>>, <<>>}}

StateFrames == StateChangeFrames \cup DeviceInfoFrames

WaitForState ==
    /\ Len(ops) < MaxOps
    /\ \E v \in StateWaits : RawSReq(WaitForStateCall(v[1], v[2]))

OnStateFrame ==
    \E f \in StateFrames :
        /\ Deliver(f)
        /\ UNCHANGED <<sent, replies>>

StateNext ==
    \/ WaitForState
    \/ OnStateFrame

StateSpec == Init /\ [][StateNext]_vars
-----------------------------------------------------------------------------
(* The status helpers: CheckStatus and CheckOnlyStatus applied to byte     *)
(* sequences, and a status-checked request, SysOsalNvWriteRaw.             *)

\* Longest response given to a status helper.
MaxResponseLen == 3

\* Success, two failure codes, and the largest byte.
StatusBytes == {ZnpStatusSuccess, 1, 10, 255}

Responses == UNION {[1..n -> StatusBytes] : n \in 0..MaxResponseLen}

\* A call of a static helper on response: no request is sent.
HelperCall(api, response) ==
    [response |-> response] @@ RequestOnly(api, ZnpCommand(0, 0), {})

SysOsalNvWriteRawCall ==
    RequestOnly("SysOsalNvWriteRaw", SysCommand.OSAL_NV_WRITE,
                {SysCommand.OSAL_NV_WRITE})

\* A helper applied to a response: its outcome is there when it returns.
Helper(api, response) ==
    /\ ops = <<>>
    /\ ops' = Append(ops, HelperCall(api, response))
    /\ req' = Append(req, NewSlot)
    /\ wt' = Append(wt, NoWaiter)
    /\ fut' = Append(fut, IF api = "CheckStatus"
                          THEN CheckStatus(response)
                          ELSE CheckOnlyStatus(response))
    /\ UNCHANGED <<handlers, sent, replies, signals, subs, seen>>

CheckStatusAlone == \E response \in Responses : Helper("CheckStatus", response)

CheckOnlyStatusAlone == \E response \in Responses : Helper("CheckOnlyStatus", response)

SysOsalNvWriteRaw ==
    /\ Len(ops) < MaxOps
    /\ RawSReq(SysOsalNvWriteRawCall)

StatusAnswers == {<<0>>, <<1>>, <<10>>, <<0, 0>>, <<>>}

StatusFrames == {Srsp(SysCommand.OSAL_NV_WRITE, p) : p \in StatusAnswers}

OnStatusFrame ==
    \E f \in StatusFrames :
        /\ Deliver(f)
        /\ UNCHANGED <<sent, replies>>

StatusNext ==
    \/ CheckStatusAlone
    \/ CheckOnlyStatusAlone
    \/ SysOsalNvWriteRaw
    \/ OnStatusFrame

StatusSpec == Init /\ [][StatusNext]_vars
-----------------------------------------------------------------------------
(* Callbacks that throw: the application connects callbacks to the         *)
(* signals, some of which throw when called, and the device sends event    *)
(* frames.                                                                 *)

\* The application connects a callback that throws to the signal of event k.
SubscribeThrowing ==
    /\ Len(subs) < MaxSubs
    /\ \E k \in {StateChangeEvent, Len(EventHandlers)} :
          /\ subs' = Append(subs, Subscriber("throws", 0))
          /\ signals' = [signals EXCEPT ![k] = Append(@, Len(subs) + 1)]
    /\ UNCHANGED <<handlers, ops, req, wt, sent, replies, seen, fut>>

FaultNext ==
    \/ Subscribe
    \/ SubscribeThrowing
    \/ WaitForEvent
    \/ OnEventFrame

FaultSpec == Init /\ [][FaultNext]_vars
-----------------------------------------------------------------------------
(* Handlers appended during a dispatch: the waiter WaitAfter installs from *)
(* the continuation of the SRSP, and a request issued by a callback of the *)
(* application from inside an event.                                       *)

\* The application connects to zdo_on_state_change_ a callback that calls
\* SysPing the first time it runs.  The call is listed in ops from now on;
\* its handler is pushed, and its SREQ sent, when the callback runs.
SubscribeCalling ==
    /\ Len(subs) < MaxSubs
    /\ Len(ops) < MaxOps
    /\ subs' = Append(subs, Subscriber("calls", Len(ops) + 1))
    /\ signals' = [signals EXCEPT ![StateChangeEvent] = Append(@, Len(subs) + 1)]
    /\ ops' = Append(ops, SysPingCall)
    /\ req' = Append(req, NewSlot)
    /\ wt' = Append(wt, NoWaiter)
    /\ fut' = Append(fut, Pending)
    /\ UNCHANGED <<handlers, sent, replies, seen>>

AppendFrames ==
    { Srsp(AfCommand.DATA_REQUEST, <<0>>),
      Srsp(AfCommand.DATA_REQUEST, <<1>>),
      Srsp(ZdoCommand.BIND_REQ, <<0>>),
      Srsp(SysCommand.PING, <<121, 0>>),
      Areq(AfCommand.DATA_CONFIRM, <<0, 1, 66>>),
      Areq(ZdoCommand.BIND_RSP, <<52, 18, 0>>),
      Areq(ZdoCommand.STATE_CHANGE_IND, <<DeviceState.ZB_COORD>>),
      Areq(ZdoCommand.STATE_CHANGE_IND, <<>>) }

\* The SREQs of the callbacks that made their call between subscribers
\* before and after, in the order of the calls.
RECURSIVE SentByCallbacks(_, _, _)
SentByCallbacks(calls, before, after) ==
    IF calls = <<>>
    THEN <<>>
    ELSE LET s == Head(calls).sub
             rest == SentByCallbacks(Tail(calls), before, after)
         IN  IF before[s].kind = "calls" /\ before[s].n = 0 /\ after[s].n = 1
             THEN <<Frame(ZnpCommandType.SREQ, ops[before[s].op].command, <<>>)>> \o rest
             ELSE rest

OnAppendFrame ==
    \E f \in AppendFrames :
        /\ Deliver(f)
        /\ sent' = sent \o SentByCallbacks(seen', subs, subs')
        /\ UNCHANGED replies

AppendNext ==
    \/ SubscribeCalling
    \/ AfDataRequest
    \/ ZdoBind
    \/ OnAppendFrame

AppendSpec == Init /\ [][AppendNext]_vars
-----------------------------------------------------------------------------
(* Operations that wait for the same command: two data requests with       *)
(* different (endpoint, transaction id), two binds with different          *)
(* destination addresses, their answers in any order, and the timers.      *)

PairDataRequests == {<<1, 66>>, <<2, 66>>}

PairAddresses == {4660, 4661}

AfDataRequestOfPair ==
    /\ Len(ops) < MaxOps
    /\ \E d \in PairDataRequests :
           /\ \A i \in 1..Len(ops) :
                  ops[i].api = "AfDataRequest" => <<ops[i].DstEndpoint, ops[i].TransId>> # d
           /\ RawSReq(AfDataRequestCall(d[1], d[2]))

ZdoBindOfPair ==
    /\ Len(ops) < MaxOps
    /\ \E a \in PairAddresses :
           /\ \A i \in 1..Len(ops) : ops[i].api = "ZdoBind" => ops[i].data_prefix # Encode(a)
           /\ RawSReq(ZdoBindCall(a))

DataConfirmFrames ==
    {Areq(AfCommand.DATA_CONFIRM, <<0, d[1], d[2]>>) : d \in PairDataRequests}

BindRspFrames ==
    {Areq(ZdoCommand.BIND_RSP, Encode(a) \o <<0>>) : a \in PairAddresses}

PairFrames ==
    {Srsp(AfCommand.DATA_REQUEST, <<0>>), Srsp(ZdoCommand.BIND_REQ, <<0>>)}
        \cup DataConfirmFrames \cup BindRspFrames

OnPairFrame ==
    \E f \in PairFrames :
        /\ Deliver(f)
        /\ UNCHANGED <<sent, replies>>

PairNext ==
    \/ AfDataRequestOfPair
    \/ ZdoBindOfPair
    \/ TimerFire
    \/ OnPairFrame

PairSpec == Init /\ [][PairNext]_vars
-----------------------------------------------------------------------------
(* Properties of the dispatcher and of the completion slots.               *)

Installed(h, hs) == \E k \in 1..Len(hs) : hs[k] = h

\* C1: for every inbound frame, OnFrame invokes the handlers of the list in
\* insertion order, each at most once, and stops at the first handler that
\* returns stop_processing: the invocations are exactly the handlers of the
\* list (as it is when the frame arrives) up to and including the first one
\* that stops, none of the earlier ones having stopped, and all of the list
\* when none stops.
C1_DispatchOrder ==
    \A f \in Frames :
        LET trace == Dispatch(f).log
            n == Len(trace)
        IN  /\ n >= 1
            /\ n <= Len(handlers)
            /\ \A k \in 1..n : trace[k].h = handlers[k]
            /\ \A k \in 1..(n - 1) : ~trace[k].stop_processing
            /\ n < Len(handlers) => trace[n].stop_processing

\* A request has claimed a frame and stopped its dispatch ahead of a handler
\* installed after it, which is still in the list.
C1_Witness ==
    \E i \in 1..Len(ops) :
        /\ req[i].n = 1
        /\ \E j \in (i + 1)..Len(ops) : Installed(Handler("req", j), handlers)
        /\ \E f \in Frames :
              LET trace == Dispatch(f).log
              IN  Len(trace) < Len(handlers) /\ Len(trace) > Len(EventHandlers)

\* C2: every completion slot created by RawSReq or WaitFor is fulfilled at
\* most once, with a payload or a failure, and is pending until then.
C2_SingleCompletion ==
    \A i \in 1..Len(ops) :
        /\ req[i].n <= 1
        /\ wt[i].n <= 1
        /\ req[i].n = 0 <=> req[i].out = Pending
        /\ wt[i].n = 0 <=> wt[i].out = Pending
        /\ req[i].out.st \in {"pending", "value", "error"}
        /\ wt[i].out.st \in {"pending", "value", "error"}

\* A timed waiter was completed by a frame and its timer has fired since.
C2_Witness ==
    \E i \in 1..Len(ops) :
        /\ req[i].n = 1
        /\ wt[i].n = 1
        /\ wt[i].out.st = "value"
        /\ wt[i].timer = "fired"

Timed(i) == wt[i].made /\ wt[i].timer # "none"

\* The slot of waiter i is what it was, and the waiter is inactive.
SettledIn(w, i) == w.n = wt[i].n /\ w.out = wt[i].out /\ ~w.active

\* In every state a timed waiter is active exactly while its slot is
\* pending; once it is inactive neither its timer callback nor the dispatch
\* of any frame, matching or not, touches its slot.
C3_State ==
    \A i \in 1..Len(ops) :
        Timed(i) =>
            /\ wt[i].active <=> wt[i].n = 0
            /\ ~wt[i].active =>
                  /\ SettledIn(TimerCallback(wt[i]), i)
                  /\ \A f \in Frames : SettledIn(Dispatch(f).st.wt[i], i)

\* In every step, the step that makes a timed waiter inactive fulfils its
\* slot once, either with Timeout (the timer fired in this step) or with a
\* payload (the timer did not fire in this step); no step changes the slot
\* of an inactive waiter.
C3_Step ==
    \A i \in 1..Len(ops) :
        Timed(i) =>
            /\ ~wt[i].active => SettledIn(wt'[i], i)
            /\ wt[i].active /\ ~wt'[i].active =>
                  /\ wt'[i].n = 1
                  /\ \/ /\ wt[i].timer = "armed"
                        /\ wt'[i].timer = "fired"
                        /\ wt'[i].out = WaitForTimeout
                     \/ /\ wt'[i].timer = wt[i].timer
                        /\ wt'[i].out.st = "value"

\* C3: for every waiter installed with timeout > 0 the timer firing and the
\* handler matching a frame are mutually exclusive: whichever happens first
\* sets active to false and fulfils the slot, and the other one, when it
\* comes, leaves the slot alone.
C3_TimerMatchExclusive == []C3_State /\ [][C3_Step]_vars

\* One waiter was completed by a frame before its timer fired; another timed
\* out and has since been taken off the list by a later frame.
C3_Witness ==
    \E i, j \in 1..Len(ops) :
        /\ Timed(i) /\ wt[i].out.st = "value" /\ wt[i].timer = "fired"
        /\ Timed(j) /\ wt[j].out = WaitForTimeout
        /\ ~Installed(Handler("wait", j), handlers)

\* The dispatch goes on after invocation k of a trace over the list hs.
Continues(trace, k, hs) == k < Len(trace) \/ k = Len(hs)

\* C4: a pending request that is invoked on an SRSP whose command is in its
\* accepted responses completes with exactly the payload, is removed and
\* stops the dispatch; invoked on an AREQ or SREQ frame, or on an SRSP whose
\* command is neither accepted nor (RPC_Error, 0), it stays pending and
\* installed and the dispatch continues.
C4_RequestMatch ==
    \A f \in Frames :
        LET r == Dispatch(f)
        IN  \A k \in 1..Len(r.log) :
                LET a == r.log[k]
                    i == a.h.id
                    accepted == ops[i].possible_responses
                IN  a.h.kind = "req" =>
                      /\ (f.type = ZnpCommandType.SRSP /\ f.command \in accepted) =>
                            /\ a.stop_processing /\ a.remove_me
                            /\ r.st.req[i] = [n |-> 1, out |-> Value(f.payload)]
                            /\ ~Installed(a.h, r.st.hs)
                      /\ (\/ f.type \in {ZnpCommandType.AREQ, ZnpCommandType.SREQ}
                          \/ /\ f.type = ZnpCommandType.SRSP
                             /\ f.command \notin accepted
                             /\ f.command # RPC_ErrorCommand) =>
                            /\ ~a.stop_processing /\ ~a.remove_me
                            /\ r.st.req[i] = NewSlot
                            /\ Installed(a.h, r.st.hs)
                            /\ Continues(r.log, k, handlers)

\* SysPing has completed with the two bytes of its SRSP and left the list,
\* while another request is pending and is passed frames of every kind.
C4_Witness ==
    \E i, j \in 1..Len(ops) :
        /\ ops[i].api = "SysPing"
        /\ req[i] = [n |-> 1, out |-> Value(<<121, 0>>)]
        /\ ~Installed(Handler("req", i), handlers)
        /\ req[j].n = 0
        /\ Installed(Handler("req", j), handlers)

\* The payload is [error_code, packed, id] and names an SREQ of a command in
\* accepted.
Correlated(payload, accepted) ==
    /\ Len(payload) = 3
    /\ payload[2] \div 16 = ZnpCommandType.SREQ
    /\ <<payload[2] % 16, payload[3]>> \in accepted

\* C5: a request invoked on an SRSP (RPC_Error, 0) claims it (fails with the
\* RPC error carrying error_code, is removed, stops the dispatch) if and only
\* if the payload is exactly [error_code, packed, id] with packed >> 4 the
\* SREQ code and (packed & 0x0F, id) among its accepted responses; otherwise
\* it stays pending and the frame passes on to the handlers after it.
C5_RpcErrorCorrelation ==
    \A f \in Frames :
        (f.type = ZnpCommandType.SRSP /\ f.command = RPC_ErrorCommand) =>
            LET r == Dispatch(f)
            IN  \A k \in 1..Len(r.log) :
                    LET a == r.log[k]
                        i == a.h.id
                    IN  a.h.kind = "req" =>
                          IF Correlated(f.payload, ops[i].possible_responses)
                          THEN /\ a.stop_processing /\ a.remove_me
                               /\ r.st.req[i] =
                                     [n |-> 1, out |-> Failure("RPC Error", f.payload[1])]
                               /\ ~Installed(a.h, r.st.hs)
                          ELSE /\ ~a.stop_processing /\ ~a.remove_me
                               /\ r.st.req[i] = NewSlot
                               /\ Installed(a.h, r.st.hs)
                               /\ Continues(r.log, k, handlers)

\* A request has failed with the error code of an RPC_Error naming it, and
\* another request, which that frame did not name, is still pending.
C5_Witness ==
    \E i, j \in 1..Len(ops) :
        /\ req[i] = [n |-> 1, out |-> Failure("RPC Error", 3)]
        /\ ~Installed(Handler("req", i), handlers)
        /\ req[j].n = 0
        /\ Installed(Handler("req", j), handlers)
        /\ ops[i].possible_responses \cap ops[j].possible_responses = {}

\* Handler number k of the list is a request that accepts the command.
Accepts(k, command) ==
    /\ handlers[k].kind = "req"
    /\ command \in ops[handlers[k].id].possible_responses

\* C6: when two or more outstanding requests accept the command of an SRSP,
\* the SRSP completes the one registered first and only that one: every
\* later one is not invoked on the frame and stays pending and installed.
C6_FirstRegisteredWins ==
    \A f \in Frames :
        f.type = ZnpCommandType.SRSP =>
            LET r == Dispatch(f)
            IN  \A b \in 1..Len(handlers) :
                    Accepts(b, f.command) =>
                        IF \E a \in 1..(b - 1) : Accepts(a, f.command)
                        THEN /\ \A k \in 1..Len(r.log) : r.log[k].h # handlers[b]
                             /\ r.st.req[handlers[b].id] = NewSlot
                             /\ Installed(handlers[b], r.st.hs)
                        ELSE /\ r.st.req[handlers[b].id] =
                                   [n |-> 1, out |-> Value(f.payload)]
                             /\ ~Installed(handlers[b], r.st.hs)

\* ZdoExtRemoveAllGroup and ZdoExtRemoveGroup were outstanding together, the
\* one registered first has completed and the other is pending, installed.
C6_Witness ==
    \E a, b \in 1..Len(ops) :
        /\ a < b
        /\ ops[a].api # ops[b].api
        /\ ops[a].possible_responses \cap ops[b].possible_responses # {}
        /\ req[a].out.st = "value"
        /\ req[b].n = 0
        /\ Installed(Handler("req", b), handlers)

\* What the future of RawSReq holds after the reply f.
ReplyOutcome(f) ==
    IF f.command = RPC_ErrorCommand
    THEN Failure("RPC Error", f.payload[1])
    ELSE Value(f.payload)

\* The requests the device has answered are fulfilled once, request number i
\* with the outcome of reply number i, and the others are pending.
C7_State ==
    \A i \in 1..Len(ops) :
        IF i <= Len(replies)
        THEN req[i] = [n |-> 1, out |-> ReplyOutcome(replies[i])]
        ELSE req[i] = NewSlot

\* C7: when the device answers every SREQ with one SRSP of the same command
\* or one RPC_Error naming it, in the order the SREQs were sent, every
\* request is fulfilled exactly once: it is fulfilled eventually, and with
\* the outcome of the reply to its own SREQ, however many are outstanding.
C7_EveryRequestCompletes ==
    /\ []C7_State
    /\ \A i \in 1..MaxOps :
          (i <= Len(ops)) ~> (i <= Len(ops) /\ req[i].n = 1)

\* Two requests of the same command were answered, the first with an
\* RPC_Error and the second with an SRSP, and each has its own outcome.
C7_Witness ==
    /\ Len(replies) = 2
    /\ ops[1].command = ops[2].command
    /\ replies[1].command = RPC_ErrorCommand
    /\ replies[2].command = ops[2].command
    /\ req[1].out.st = "error"
    /\ req[2].out.st = "value"

\* The frame satisfies the match rule of the WaitFor of call o.
Matches(o, f) ==
    /\ f.type = o.type
    /\ f.command = o.wcommand
    /\ Len(f.payload) >= Len(o.data_prefix)
    /\ SubSeq(f.payload, 1, Len(o.data_prefix)) = o.data_prefix

\* The payload without its first Len(data_prefix) bytes.
Remainder(o, f) == SubSeq(f.payload, Len(o.data_prefix) + 1, Len(f.payload))

InvokedIn(trace, h) == \E k \in 1..Len(trace) : trace[k].h = h

\* Waiter i is in the list and would still act on a frame.
Live(i) == wt[i].made /\ (wt[i].timer = "none" \/ wt[i].active)

\* C8: an active waiter that is invoked on a frame claims it (completes,
\* removes itself, stops the dispatch) if and only if type and command are
\* its own and the payload starts with its prefix; the completion value is
\* the payload without the prefix bytes.  On every other frame it returns
\* (false, false) and stays pending.
C8_WaiterMatchRule ==
    \A f \in UnitFrames :
        LET r == Dispatch(f)
        IN  \A k \in 1..Len(r.log) :
                LET a == r.log[k]
                    i == a.h.id
                IN  (a.h.kind = "wait" /\ Live(i)) =>
                        IF Matches(ops[i], f)
                        THEN /\ a.stop_processing /\ a.remove_me
                             /\ r.st.wt[i].n = 1
                             /\ r.st.wt[i].out = Value(Remainder(ops[i], f))
                             /\ ~Installed(a.h, r.st.hs)
                        ELSE /\ ~a.stop_processing /\ ~a.remove_me
                             /\ r.st.wt[i] = wt[i]
                             /\ wt[i].n = 0
                             /\ Installed(a.h, r.st.hs)

\* A waiter with the two-byte prefix has completed with the byte after it.
C8_Witness ==
    \E i \in 1..Len(ops) :
        /\ ops[i].data_prefix = <<52, 18>>
        /\ wt[i] = [NewWaiter(ops[i].timeout_in_seconds) EXCEPT
                       !.n = 1, !.out = Value(<<0>>), !.active = FALSE]
        /\ ~Installed(Handler("wait", i), handlers)

\* Handler h claims frame f when it is invoked on it.
Claims(h, f) ==
    CASE h.kind = "event" ->
            /\ f.type = ZnpCommandType.AREQ
            /\ f.command = EventHandlers[h.id].command
            /\ Decodes(EventHandlers[h.id].shape, EventHandlers[h.id].allow_partial,
                       f.payload)
      [] h.kind = "req" ->
            /\ f.type = ZnpCommandType.SRSP
            /\ \/ f.command \in ops[h.id].possible_responses
               \/ /\ f.command = RPC_ErrorCommand
                  /\ Correlated(f.payload, ops[h.id].possible_responses)
      [] h.kind = "wait" -> Live(h.id) /\ Matches(ops[h.id], f)

ClaimedAhead(k, f) == \E j \in 1..(k - 1) : Claims(handlers[j], f)

Untimed(k) == handlers[k].kind = "wait" /\ wt[handlers[k].id].timer = "none"

CompletedWith(st, k, f) ==
    /\ st.wt[handlers[k].id].n = 1
    /\ st.wt[handlers[k].id].out = Value(Remainder(ops[handlers[k].id], f))
    /\ ~Installed(handlers[k], st.hs)

\* C9 as stated: whatever the type and the command, a waiter without timeout
\* completes with payload[len(prefix)..] when a frame that satisfies its
\* rule is delivered, on a mediator that holds no other request or waiter.
C9_RoundTripAnyCommand ==
    \A f \in UnitFrames :
        \A k \in 1..Len(handlers) :
            (/\ Untimed(k)
             /\ Matches(ops[handlers[k].id], f)
             /\ Len(handlers) = Len(EventHandlers) + 1) =>
                CompletedWith(Dispatch(f).st, k, f)

\* C9, amended: the round trip holds exactly when no handler ahead of the
\* waiter claims the frame.  The permanent event handlers are ahead of every
\* waiter, so an AREQ frame with an event command and a decodable payload
\* never reaches the waiter: the waiter is not invoked, stays pending and
\* installed.
C9_RoundTripUnlessClaimedAhead ==
    \A f \in UnitFrames :
        \A k \in 1..Len(handlers) :
            (Untimed(k) /\ Matches(ops[handlers[k].id], f)) =>
                LET r == Dispatch(f)
                IN  IF ClaimedAhead(k, f)
                    THEN /\ ~InvokedIn(r.log, handlers[k])
                         /\ r.st.wt[handlers[k].id] = wt[handlers[k].id]
                         /\ Installed(handlers[k], r.st.hs)
                    ELSE CompletedWith(r.st, k, f)

\* A waiter without timeout on an SRSP frame has completed with the whole
\* payload (empty prefix), on a mediator that held nothing else.
C9_Witness ==
    /\ Len(ops) >= 1
    /\ ops[1].type = ZnpCommandType.SRSP
    /\ ops[1].data_prefix = <<>>
    /\ wt[1] = [NewWaiter(DefaultTimeout) EXCEPT !.n = 1, !.out = Value(<<52, 18>>)]
    /\ ~Installed(Handler("wait", 1), handlers)

\* A timed waiter that a frame satisfying its rule reaches while it is
\* active completes with the payload remainder, and one whose timer fires
\* while it is active completes with Timeout.
C10_State ==
    \A i \in 1..Len(ops) :
        (Timed(i) /\ wt[i].active) =>
            /\ wt[i].timer = "armed" =>
                  TimerCallback(wt[i]) =
                      [wt[i] EXCEPT !.n = 1, !.out = WaitForTimeout,
                                    !.active = FALSE, !.timer = "fired"]
            /\ \A f \in AreqFrames :
                  LET r == Dispatch(f)
                  IN  (InvokedIn(r.log, Handler("wait", i)) /\ Matches(ops[i], f)) =>
                          /\ r.st.wt[i].n = 1
                          /\ r.st.wt[i].out = Value(Remainder(ops[i], f))

\* The step in which the timer of an active waiter fires completes it with
\* Timeout; a completed waiter holds Timeout or a payload.
C10_Step ==
    \A i \in 1..Len(ops) :
        Timed(i) =>
            /\ (wt[i].active /\ wt[i].timer = "armed" /\ wt'[i].timer = "fired") =>
                  (wt'[i].n = 1 /\ wt'[i].out = WaitForTimeout)
            /\ wt'[i].n = 1 => (wt'[i].out = WaitForTimeout \/ wt'[i].out.st = "value")

\* C10: a waiter installed with timeout > 0 always completes eventually
\* (its timer eventually firing): with Timeout when the timer fires before a
\* frame satisfying its rule is dispatched to it, with the payload remainder
\* of that frame otherwise.
C10_TimedWaiterCompletes ==
    /\ []C10_State
    /\ [][C10_Step]_vars
    /\ \A i \in 1..MaxOps :
          (i <= Len(ops) /\ Timed(i)) ~> (i <= Len(ops) /\ wt[i].n = 1)

\* One bind waiter has timed out and is still in the list; another has
\* completed with the status byte that follows its address prefix.
C10_Witness ==
    \E i, j \in 1..Len(ops) :
        /\ Timed(i) /\ wt[i].out = WaitForTimeout
        /\ Installed(Handler("wait", i), handlers)
        /\ Timed(j) /\ wt[j].out = Value(<<0>>)

-----------------------------------------------------------------------------
(* Follow-up waiters, events, the state helper and the status helpers.     *)

\* The mediator state now.
Now ==
    [hs |-> handlers, req |-> req, wt |-> wt, signals |-> signals,
     subs |-> subs, seen |-> seen]

\* C11: WaitAfter adds no handler and arms no timer before first_request has
\* completed successfully: the waiter of a call exists only once its SREQ
\* was answered and CheckOnlyStatus passed, and the frame that completes
\* first_request installs the waiter exactly when it completes it with
\* success.  When first_request fails (status byte, trailing bytes, RPC
\* error) no waiter is installed, then or later, and the future WaitAfter
\* returned, and with it the future of the call, holds that failure.
C11_WaitAfterOnlyOnSuccess ==
    \A i \in 1..Len(ops) :
        ops[i].wait =>
            /\ (wt[i].made \/ Installed(Handler("wait", i), handlers)) =>
                  (req[i].n = 1 /\ FirstRequest(Now, i).st = "value")
            /\ ~wt[i].made => (wt[i] = NoWaiter /\ ~Installed(Handler("wait", i), handlers))
            /\ FirstRequest(Now, i).st = "error" =>
                  /\ ~wt[i].made
                  /\ WaitAfterFuture(Now, i) = FirstRequest(Now, i)
                  /\ fut[i] = FirstRequest(Now, i)
            /\ req[i].n = 0 =>
                  \A f \in Frames : \A r \in {Dispatch(f)} :
                      /\ r.st.wt[i].made <=> FirstRequest(r.st, i).st = "value"
                      /\ Installed(Handler("wait", i), r.st.hs) <=> r.st.wt[i].made

\* One call's SREQ was answered with a non-success status and it has no
\* waiter and the failure of CheckStatus; another's was answered with an
\* RPC error, likewise; neither left a handler.
C11_Witness ==
    \E i, j \in 1..Len(ops) :
        /\ ops[i].wait /\ ops[j].wait
        /\ req[i].out = Value(<<1>>)
        /\ fut[i] = Failure("ZNP Status was not success", 0)
        /\ req[j].out = Failure("RPC Error", 2)
        /\ fut[j] = req[j].out
        /\ wt[i] = NoWaiter /\ wt[j] = NoWaiter
        /\ Len(handlers) = Len(EventHandlers)

\* Frame f carries the command of event k.
EventFrame(f, k) ==
    f.type = ZnpCommandType.AREQ /\ f.command = EventHandlers[k].command

DecodesAs(f, k) ==
    Decodes(EventHandlers[k].shape, EventHandlers[k].allow_partial, f.payload)

\* The calls a signal makes when its slots are slots, each with arguments.
CallsOf(slots, arguments) ==
    [j \in 1..Len(slots) |-> [sub |-> slots[j], arguments |-> arguments]]

\* C12: for each of the six events, the dispatch of one AREQ frame with the
\* event's command and a payload that decodes calls every subscriber that is
\* connected to that event exactly once, in the order they were connected,
\* all with the same decoded arguments, and calls no subscriber of another
\* event, whatever requests and waiters are in the handler list.
C12_EventFanOut ==
    \A f \in EventFrames : \A k \in 1..Len(EventHandlers) :
        (EventFrame(f, k) /\ DecodesAs(f, k)) =>
            \A r \in {Dispatch(f)} :
                /\ r.st.seen = CallsOf(signals[k],
                                       DecodedEvent(EventHandlers[k].shape, f.payload))
                /\ ~r.thrown
                /\ r.st.signals = signals

\* The two callbacks connected to zdo_on_permit_join_ were both called, in
\* connection order, with the decoded byte, while a waiter and a request
\* were pending behind the event handlers.
C12_Witness ==
    /\ signals[5] = <<1, 2>>
    /\ seen = <<[sub |-> 1, arguments |-> <<60>>], [sub |-> 2, arguments |-> <<60>>]>>
    /\ Len(ops) = 2
    /\ \A i \in 1..Len(ops) : fut[i] = Pending
    /\ Len(handlers) = Len(EventHandlers) + 2

\* The handlers the loop of OnFrame invoked are the handlers of the list in
\* order, and the loop stopped only at a handler that claimed the frame.
OfferedInOrder(r) ==
    /\ Len(r.log) <= Len(handlers)
    /\ \A j \in 1..Len(r.log) :
          /\ r.log[j].h = handlers[j]
          /\ r.log[j].stop_processing => j = Len(r.log)
    /\ Len(r.log) < Len(handlers) => r.log[Len(r.log)].stop_processing

\* C13: when an AREQ frame carries the command of an event and its payload
\* does not decode (too short, or trailing bytes where allow_partial is
\* false), the event handler calls no subscriber, returns (false, false) and
\* stays installed, and the frame is offered to the handlers behind it: the
\* first pending waiter on that command claims it and completes with the
\* payload.
C13_MalformedEventPassedOn ==
    \A f \in EventFrames : \A k \in 1..Len(EventHandlers) :
        (EventFrame(f, k) /\ ~DecodesAs(f, k)) =>
            \A r \in {Dispatch(f)} :
                /\ r.st.seen = <<>>
                /\ r.st.signals = signals /\ r.st.subs = subs
                /\ Len(r.log) >= k
                /\ r.log[k] = Invocation(Handler("event", k), Pass)
                /\ Installed(Handler("event", k), r.st.hs)
                /\ OfferedInOrder(r)
                /\ \A j \in 1..Len(handlers) :
                      (/\ handlers[j].kind = "wait"
                       /\ Matches(ops[handlers[j].id], f)
                       /\ \A m \in 1..(j - 1) :
                             ~(handlers[m].kind = "wait" /\ Matches(ops[handlers[m].id], f))) =>
                          /\ r.log[j] = Invocation(handlers[j], Action(TRUE, TRUE, TRUE, Pending))
                          /\ r.st.wt[handlers[j].id].out = Value(f.payload)

\* A STATE_CHANGE_IND frame with a trailing byte reached the waiter on that
\* command, which completed with the whole payload, while a callback was
\* connected to zdo_on_state_change_ and was not called.
C13_Witness ==
    /\ Len(ops) >= 1
    /\ ops[1].api = "WaitFor"
    /\ fut[1] = Value(<<DeviceState.ZB_COORD, 0>>)
    /\ Len(signals[StateChangeEvent]) >= 1
    /\ seen = <<>>
    /\ \A k \in 1..Len(EventHandlers) : Installed(Handler("event", k), handlers)


\* The slot of WaitForState call i is connected to zdo_on_state_change_.
Subscribed(st, i) ==
    \E s \in 1..Len(st.subs) :
        /\ st.subs[s].kind = "state" /\ st.subs[s].op = i
        /\ \E j \in 1..Len(st.signals[StateChangeEvent]) :
               st.signals[StateChangeEvent][j] = s

\* What a state decides: the end states are tested first.
Decides(o, state, what) ==
    IF state \in o.end_states
    THEN Value(<<state>>)
    ELSE IF state \notin o.allowed_states
         THEN Failure(what, 0)
         ELSE Pending

\* C14: the future of WaitForState(end_states, allowed_states) is decided by
\* the first of s0 (the answer of the device-info query), s1, s2, ... (the
\* state-change events after it) that is in end_states, which resolves it
\* with that state, or outside allowed_states, which fails it; end_states is
\* tested first, and a state that is allowed and not an end state leaves the
\* future pending.  The slot is connected exactly while the future waits
\* for an event, and a decided future is changed by no later frame.
C14_WaitForState ==
    \A i \in 1..Len(ops) :
        ops[i].api = "WaitForState" =>
            \A d \in {ThenDeviceState(req[i].out)} :
                /\ d.st = "pending" => fut[i] = Pending /\ ~Subscribed(Now, i)
                /\ d.st = "error" => fut[i] = d /\ ~Subscribed(Now, i)
                /\ (d.st = "value" /\ Decides(ops[i], d.val[1], "Invalid state reached") # Pending) =>
                       /\ fut[i] = Decides(ops[i], d.val[1], "Invalid state reached")
                       /\ ~Subscribed(Now, i)
                /\ Subscribed(Now, i) <=>
                       /\ d.st = "value"
                       /\ Decides(ops[i], d.val[1], "Invalid state reached") = Pending
                       /\ fut[i] = Pending
                /\ \A f \in StateFrames :
                       \A r \in {Dispatch(f)} :
                           /\ fut[i] # Pending =>
                                  Future(r.st, i) = fut[i] /\ ~Subscribed(r.st, i)
                           /\ (Subscribed(Now, i) /\ f \in StateChangeFrames) =>
                                  /\ Future(r.st, i) =
                                         Decides(ops[i], f.payload[1], "Non-allowed state reached")
                                  /\ Subscribed(r.st, i) <=> Future(r.st, i) = Pending
                           /\ (Subscribed(Now, i) /\ f \notin StateChangeFrames) =>
                                  Future(r.st, i) = Pending /\ Subscribed(r.st, i)

\* A call that waited through one state change it allows and was resolved by
\* the next, an end state; and a call failed by an event.
C14_Witness ==
    /\ \E i \in 1..Len(ops) :
           /\ ops[i].api = "WaitForState"
           /\ fut[i] = Value(<<DeviceState.ZB_COORD>>)
           /\ ThenDeviceState(req[i].out) = Value(<<DeviceState.HOLD>>)
           /\ ~Subscribed(Now, i)
    /\ \E i \in 1..Len(ops) :
           /\ ops[i].api = "WaitForState"
           /\ fut[i] = Failure("Non-allowed state reached", 0)

\* Payloads of the frames offered to a data request: answers to the SREQ and
\* confirms, right and wrong in each field and in length.
DataRequestAnswers == {<<0>>, <<1>>, <<0, 0>>, <<>>}

DataConfirms ==
    {<<0, 1, 66>>, <<0, 2, 66>>, <<0, 1, 67>>, <<1, 1, 66>>, <<0, 1, 66, 0>>,
     <<0, 1>>, <<>>}

\* Call i is the only data request whose future is still pending.
OnlyOutstanding(i) ==
    /\ ops[i].api = "AfDataRequest"
    /\ fut[i] = Pending
    /\ \A j \in 1..Len(ops) :
           (j # i /\ ops[j].api = "AfDataRequest") => fut[j] # Pending

\* C15: the future of AfDataRequest(E, T) holds a value only when the SRSP
\* was exactly [0x00] and the confirm its waiter took was exactly
\* [0x00, E, T].  For the only outstanding data request: an SRSP other than
\* [0x00] fails the future and [0x00] leaves it pending; a confirm before
\* the SRSP changes nothing; the first confirm after it decides the future,
\* with success on [0x00, E, T], with the status failure on a non-zero
\* status, with the mismatch failure on another endpoint or transaction id,
\* and with a failure on any other payload.
C15_AfDataRequest ==
    \A i \in 1..Len(ops) :
        ops[i].api = "AfDataRequest" =>
            /\ fut[i].st = "value" =>
                   /\ req[i].out = Value(<<0>>)
                   /\ wt[i].out = Value(<<0, ops[i].DstEndpoint, ops[i].TransId>>)
                   /\ fut[i] = Value(<<>>)
            /\ (OnlyOutstanding(i) /\ req[i].out = Pending) =>
                   /\ \A p \in DataRequestAnswers :
                          \A r \in {Dispatch(Srsp(AfCommand.DATA_REQUEST, p))} :
                              IF p = <<0>>
                              THEN Future(r.st, i) = Pending /\ r.st.wt[i].made
                              ELSE Future(r.st, i).st = "error" /\ ~r.st.wt[i].made
                   /\ \A p \in DataConfirms :
                          \A r \in {Dispatch(Areq(AfCommand.DATA_CONFIRM, p))} :
                              Future(r.st, i) = Pending /\ r.st.req[i].out = Pending
            /\ (OnlyOutstanding(i) /\ req[i].out # Pending) =>
                   /\ req[i].out = Value(<<0>>) /\ wt[i].made /\ wt[i].out = Pending
                   /\ \A p \in DataConfirms :
                          \A r \in {Dispatch(Areq(AfCommand.DATA_CONFIRM, p))} :
                              /\ r.st.wt[i].out = Value(p)
                              /\ Future(r.st, i) =
                                     IF p = <<0, ops[i].DstEndpoint, ops[i].TransId>>
                                     THEN Value(<<>>)
                                     ELSE IF p = <<>>
                                     THEN Failure("Empty response received", 0)
                                     ELSE IF p[1] # ZnpStatusSuccess
                                     THEN Failure("ZNP Status was not success", 0)
                                     ELSE IF Len(p) # 3
                                     THEN DecodeT2(Tail(p))
                                     ELSE Failure("AF_DATA_REQUEST & AF_DATA_CONFIRM synchronization mismatch!", 0)
                              /\ Future(r.st, i).st = "value" <=>
                                     p = <<0, ops[i].DstEndpoint, ops[i].TransId>>

\* One data request resolved by its confirm, and a later one failed by a
\* confirm that names another endpoint.
C15_Witness ==
    \E i, j \in 1..Len(ops) :
        /\ ops[i].api = "AfDataRequest" /\ ops[j].api = "AfDataRequest"
        /\ fut[i] = Value(<<>>)
        /\ wt[j].out = Value(<<0, 2, 66>>)
        /\ fut[j] = Failure("AF_DATA_REQUEST & AF_DATA_CONFIRM synchronization mismatch!", 0)

\* C16: CheckStatus fails on an empty payload, fails on a first byte other
\* than 0x00, and otherwise returns the bytes after the first one unchanged
\* (possibly none).  It has an outcome for every byte sequence, and applying
\* it changes nothing else: no handler, no frame sent.
C16_CheckStatus ==
    \A i \in 1..Len(ops) :
        /\ ops[i].api = "CheckStatus" =>
               \A p \in {ops[i].response} :
                   /\ fut[i].st \in {"value", "error"}
                   /\ p = <<>> => fut[i] = Failure("Empty response received", 0)
                   /\ (p # <<>> /\ p[1] # 0) => fut[i].st = "error"
                   /\ (p # <<>> /\ p[1] = 0) =>
                          /\ fut[i].st = "value"
                          /\ Len(fut[i].val) = Len(p) - 1
                          /\ \A k \in 1..Len(fut[i].val) : fut[i].val[k] = p[k + 1]
                   /\ Len(ops) = 1 =>
                          /\ Len(handlers) = Len(EventHandlers)
                          /\ sent = <<>> /\ signals = NoSignals
        /\ (ops[i].api = "SysOsalNvWriteRaw" /\ req[i].out.st = "value") =>
               \A p \in {req[i].out.val} :
                   CheckStatus(p).st = "value" <=> (p # <<>> /\ p[1] = 0)

\* CheckStatus returned the two bytes after a success status.
C16_Witness ==
    \E i \in 1..Len(ops) :
        /\ ops[i].api = "CheckStatus"
        /\ ops[i].response = <<0, 10, 255>>
        /\ fut[i] = Value(<<10, 255>>)

\* C17: CheckOnlyStatus succeeds exactly on the single byte 0x00: it fails
\* on an empty payload, on a first byte other than 0x00, and on bytes after
\* a 0x00 status; so does the future of a request checked with it.
C17_CheckOnlyStatus ==
    \A i \in 1..Len(ops) :
        /\ ops[i].api = "CheckOnlyStatus" =>
               /\ fut[i].st \in {"value", "error"}
               /\ fut[i].st = "value" <=> ops[i].response = <<0>>
               /\ fut[i].st = "value" => fut[i] = Value(<<>>)
        /\ ops[i].api = "SysOsalNvWriteRaw" =>
               /\ fut[i].st = "value" <=> req[i].out = Value(<<0>>)
               /\ fut[i].st = "value" => fut[i] = Value(<<>>)
               /\ (req[i].out.st = "value" /\ req[i].out.val # <<0>>) => fut[i].st = "error"

\* CheckOnlyStatus refused a success status followed by a byte, and a write
\* answered with [0x00] resolved.
C17_Witness ==
    \E i, j \in 1..Len(ops) :
        /\ ops[i].api = "CheckOnlyStatus"
        /\ ops[i].response = <<0, 0>>
        /\ fut[i] = Failure("Empty response after status expected", 0)
        /\ ops[j].api = "SysOsalNvWriteRaw"
        /\ req[j].out = Value(<<0>>)
        /\ fut[j] = Value(<<>>)

\* The response a status helper was applied to in call i: the argument of a
\* helper called alone, the SRSP payload of a status-checked request.
Checked(i) ==
    IF ops[i].api \in {"CheckStatus", "CheckOnlyStatus"}
    THEN Value(ops[i].response)
    ELSE IF ops[i].api = "SysOsalNvWriteRaw" THEN req[i].out ELSE Pending

\* Call i was refused for the status byte of its response.
RefusedStatus(i) ==
    /\ Checked(i).st = "value"
    /\ Checked(i).val # <<>>
    /\ Checked(i).val[1] # ZnpStatusSuccess

\* C18: a status-checked operation whose response starts with a non-zero
\* byte c fails with a failure that identifies c: the failures of two
\* responses with different non-zero status bytes differ, and both differ
\* from the empty-response failure and from the timeout failure.
C18_FailureIdentifiesStatus ==
    \A i, j \in 1..Len(ops) :
        (RefusedStatus(i) /\ RefusedStatus(j)) =>
            /\ fut[i].st = "error"
            /\ fut[i] # Failure("Empty response received", 0)
            /\ fut[i] # WaitForTimeout
            /\ Checked(i).val[1] # Checked(j).val[1] => fut[i] # fut[j]

\* No handler reference occurs twice in hs.
Consistent(hs) ==
    \A a, b \in 1..Len(hs) : hs[a] = hs[b] => a = b

\* C19: an exception raised by a handler while OnFrame dispatches a frame is
\* caught by the dispatcher: it does not leave OnFrame, the handler list
\* stays consistent, and the handlers after the one that raised are still
\* offered the frame.
C19_DispatcherCatches ==
    \A f \in EventFrames :
        \A r \in {Dispatch(f)} :
            /\ ~r.thrown
            /\ Consistent(r.st.hs)
            /\ OfferedInOrder(r)

\* C20: every handler installed after construction has a bounded lifetime
\* or a terminal signal: it is a request handler, ended by its SRSP, or a
\* waiter armed with a timer (timeout > 0); so the follow-up waiter of every
\* operation that uses WaitAfter is armed.
C20_BoundedLifetime ==
    \A k \in 1..Len(handlers) :
        \/ handlers[k].kind = "event"
        \/ handlers[k].kind = "req"
        \/ /\ handlers[k].kind = "wait"
           /\ ops[handlers[k].id].timeout_in_seconds > 0
           /\ wt[handlers[k].id].timer # "none"

-----------------------------------------------------------------------------
(* Handlers appended during a dispatch, the lifetime of handlers in the    *)
(* list, and operations that wait for the same command.                    *)

\* The handlers the dispatch r appended to the list.
Appended(r) ==
    {r.st.hs[k] : k \in 1..Len(r.st.hs)} \ {handlers[k] : k \in 1..Len(handlers)}

\* C21: a handler appended to the list while a frame is dispatched (the
\* waiter installed from the continuation of the completing SRSP, a request
\* issued from inside a callback of an event) is not invoked on that frame:
\* the handler that appended it ends the dispatch.  It is at the tail of
\* the list afterwards, where the next frame reaches it.
C21_AppendedNotInvoked ==
    \A f \in AppendFrames :
        \A r \in {Dispatch(f)} :
            \A h \in Appended(r) :
                /\ ~InvokedIn(r.log, h)
                /\ r.log # <<>> /\ r.log[Len(r.log)].stop_processing
                /\ \A a, b \in 1..Len(r.st.hs) :
                       (r.st.hs[a] = h /\ r.st.hs[b] \notin Appended(r)) => b < a
                /\ \A g \in AppendFrames :
                       \A w \in {Walk(r.st, 1, <<>>, g)} :
                           \/ InvokedIn(w.log, h)
                           \/ w.log[Len(w.log)].stop_processing

\* A state in which the SRSP of a data request is about to install its
\* waiter, and one in which a state change is about to make a callback
\* issue its request.
C21_Witness ==
    /\ \E h \in Appended(Dispatch(Srsp(AfCommand.DATA_REQUEST, <<0>>))) : h.kind = "wait"
    /\ \E h \in Appended(Dispatch(Areq(ZdoCommand.STATE_CHANGE_IND, <<DeviceState.ZB_COORD>>))) :
           h.kind = "req"

\* Waiter i is reached by the walk w, or an earlier handler ended the walk.
Offered(w, i) ==
    \/ InvokedIn(w.log, Handler("wait", i))
    \/ w.log # <<>> /\ w.log[Len(w.log)].stop_processing

\* C22: the follow-up waiter of an operation built on WaitAfter is
\* installed during the dispatch of the SRSP that completes the request
\* with success, so the frame dispatched next is offered to it (unless an
\* earlier handler claims that frame) and completes it when it matches.  A
\* matching AREQ dispatched before the SRSP is not captured: it leaves the
\* operation without waiter and pending, and the waiter the SRSP installs
\* afterwards is pending.
C22_WaiterCatchesNextFrame ==
    \A i \in 1..Len(ops) :
        (ops[i].wait /\ req[i].n = 0) =>
            /\ Installed(Handler("req", i), handlers) /\ ~wt[i].made
            /\ \A f \in SrspFrames :
                   \A r \in {Dispatch(f)} :
                       FirstRequest(r.st, i).st = "value" =>
                           /\ Installed(Handler("wait", i), r.st.hs)
                           /\ r.st.wt[i].made /\ r.st.wt[i].out = Pending
                           /\ \A g \in Frames :
                                  \A w \in {Walk(r.st, 1, <<>>, g)} :
                                      /\ Offered(w, i)
                                      /\ (InvokedIn(w.log, Handler("wait", i)) /\ Matches(ops[i], g)) =>
                                             /\ w.st.wt[i].out = Value(Remainder(ops[i], g))
                                             /\ ~Installed(Handler("wait", i), w.st.hs)
            /\ \A g \in AreqFrames :
                   Matches(ops[i], g) =>
                       \A r \in {Dispatch(g)} :
                           /\ r.st.wt[i] = NoWaiter
                           /\ ~Installed(Handler("wait", i), r.st.hs)
                           /\ r.st.req[i].n = 0
                           /\ Future(r.st, i) = Pending
                           /\ \A f \in SrspFrames :
                                  \A w \in {Walk(r.st, 1, <<>>, f)} :
                                      w.st.wt[i].made => w.st.wt[i].out = Pending

\* A bind whose SRSP has not come yet, and a data request whose waiter took
\* the confirm that followed its SRSP.
C22_Witness ==
    \E i, j \in 1..Len(ops) :
        /\ ops[i].api = "ZdoBind" /\ req[i].n = 0
        /\ ops[j].api = "AfDataRequest" /\ req[j].out = Value(<<0>>)
        /\ wt[j].out = Value(<<0, 1, 66>>)
        /\ ~Installed(Handler("wait", j), handlers)

\* The timer of waiter i fired first: the waiter completed with Timeout.
TimedOut(i) == wt[i].made /\ wt[i].timer = "fired" /\ wt[i].out = WaitForTimeout

\* C23: the handler of a waiter whose timer has fired is still in the list;
\* a dispatch that does not reach it leaves it there, and the first
\* dispatch that reaches it gets (stop = false, remove = true) from it,
\* whether or not the frame satisfies its rule: the handler is erased, the
\* slot keeps Timeout, and the handler after it is offered the frame.
C23_ExpiredWaiterRemoved ==
    \A k \in 1..Len(handlers) :
        \A i \in {handlers[k].id} :
            (handlers[k].kind = "wait" /\ TimedOut(i)) =>
                /\ \A f \in Frames :
                    \A r \in {Dispatch(f)} :
                        /\ ~InvokedIn(r.log, handlers[k]) =>
                               /\ Installed(handlers[k], r.st.hs)
                               /\ r.log # <<>> /\ r.log[Len(r.log)].stop_processing
                        /\ InvokedIn(r.log, handlers[k]) =>
                               /\ \A j \in 1..Len(r.log) :
                                      r.log[j].h = handlers[k] =>
                                          ~r.log[j].stop_processing /\ r.log[j].remove_me
                               /\ ~Installed(handlers[k], r.st.hs)
                               /\ r.st.wt[i] = wt[i]
                               /\ k < Len(handlers) => InvokedIn(r.log, handlers[k + 1])
                /\ \E f \in Frames : Matches(ops[i], f)

\* A bind waiter has timed out and is in the list ahead of another handler,
\* and a frame that satisfies its rule is about to reach it.
C23_Witness ==
    \E k \in 1..Len(handlers) :
        /\ handlers[k].kind = "wait"
        /\ TimedOut(handlers[k].id)
        /\ k < Len(handlers)
        /\ \E f \in AreqFrames :
               /\ Matches(ops[handlers[k].id], f)
               /\ InvokedIn(Dispatch(f).log, handlers[k])
               /\ InvokedIn(Dispatch(f).log, handlers[k + 1])

\* The completion slot of the request or waiter handler h belongs to.
SlotOf(h) == IF h.kind = "req" THEN req[h.id] ELSE wt[h.id]

\* C24, as stated: between two dispatches every request or waiter handler in
\* the list belongs to a completion slot that is still unfulfilled.
C24_ListedHandlersPending ==
    \A k \in 1..Len(handlers) :
        handlers[k].kind # "event" => SlotOf(handlers[k]).n = 0

\* C24, amended: between two dispatches every request or waiter handler in
\* the list belongs to a completion slot that is still unfulfilled, or to a
\* timed waiter that its timer completed with Timeout and that no dispatch
\* has reached since.  Conversely every pending request and every pending
\* waiter installed has its handler in the list, once.
C24_ListedHandlersPendingOrExpired ==
    /\ \A k \in 1..Len(handlers) :
           handlers[k].kind # "event" =>
               \/ SlotOf(handlers[k]).n = 0
               \/ handlers[k].kind = "wait" /\ TimedOut(handlers[k].id)
    /\ \A a, b \in 1..Len(handlers) : handlers[a] = handlers[b] => a = b
    /\ \A i \in 1..Len(ops) :
           /\ req[i].n = 0 => Installed(Handler("req", i), handlers)
           /\ (wt[i].made /\ wt[i].n = 0) => Installed(Handler("wait", i), handlers)
           /\ Installed(Handler("wait", i), handlers) => wt[i].made

\* A waiter that timed out is in the list, beside a request that is pending
\* and a handler-free call that a frame completed.
C24_Witness ==
    /\ \E k \in 1..Len(handlers) :
           handlers[k].kind = "wait" /\ TimedOut(handlers[k].id)
    /\ \E k \in 1..Len(handlers) :
           handlers[k].kind = "req" /\ req[handlers[k].id].n = 0

\* The commands of the events the constructor registers, in its order.
ConstructionOrder ==
    << SysCommand.RESET_IND, ZdoCommand.STATE_CHANGE_IND,
       ZdoCommand.END_DEVICE_ANNCE_IND, ZdoCommand.TC_DEV_IND,
       ZdoCommand.PERMIT_JOIN_IND, AfCommand.INCOMING_MSG >>

\* The first entries of hs are the six event handlers, in construction
\* order, and no entry after them is an event handler.
EventsFirst(hs) ==
    /\ Len(hs) >= Len(ConstructionOrder)
    /\ \A k \in 1..Len(hs) :
           IF k <= Len(ConstructionOrder)
           THEN /\ hs[k] = Handler("event", k)
                /\ EventHandlers[k].command = ConstructionOrder[k]
                /\ EventHandlers[k].type = ZnpCommandType.AREQ
           ELSE hs[k].kind \in {"req", "wait"}

\* C25: in every reachable state the six event handlers of the constructor
\* are the first six entries of the handler list, in construction order,
\* and every request or waiter handler sits after them: an event handler
\* returns remove_me = false on every frame, and no dispatch moves it.
C25_EventHandlersFirst ==
    /\ Len(EventHandlers) = Len(ConstructionOrder)
    /\ EventsFirst(handlers)
    /\ \A f \in EventFrames :
           /\ \A k \in 1..Len(EventHandlers) :
                  ~SimpleEventHandler(EventHandlers[k], f).remove_me
           /\ \A r \in {Dispatch(f)} :
                  /\ EventsFirst(r.st.hs)
                  /\ \A j \in 1..Len(r.log) : r.log[j].h.kind = "event" => ~r.log[j].remove_me

\* A request and a waiter are listed behind the event handlers, and the
\* last frame was an event that a callback received.
C25_Witness ==
    /\ seen # <<>>
    /\ \E a, b \in (Len(EventHandlers) + 1)..Len(handlers) :
           handlers[a].kind = "req" /\ handlers[b].kind = "wait"

\* The synchronization-mismatch failure of AfDataRequest.
Mismatch == Failure("AF_DATA_REQUEST & AF_DATA_CONFIRM synchronization mismatch!", 0)

\* The waiter of call i is in the list, pending, ahead of the one of call j.
WaitsAhead(i, j) ==
    /\ wt[i].made /\ wt[i].n = 0 /\ wt[j].made /\ wt[j].n = 0
    /\ \E a, b \in 1..Len(handlers) :
           a < b /\ handlers[a] = Handler("wait", i) /\ handlers[b] = Handler("wait", j)

\* C26: with two data requests past their SRSP, for different (endpoint,
\* transaction id), the confirm that belongs to the second one and is
\* dispatched first is claimed by the waiter of the first one, whose future
\* fails with the synchronization mismatch; the waiter of the second one is
\* not invoked, stays installed and pending, and is completed by the
\* confirm dispatched after that, whichever it is.
C26_ConfirmsCrossMatch ==
    \A i, j \in 1..Len(ops) :
        (ops[i].api = "AfDataRequest" /\ ops[j].api = "AfDataRequest" /\ WaitsAhead(i, j)) =>
            /\ <<ops[i].DstEndpoint, ops[i].TransId>> # <<ops[j].DstEndpoint, ops[j].TransId>>
            /\ \A f \in {Areq(AfCommand.DATA_CONFIRM, <<0, ops[j].DstEndpoint, ops[j].TransId>>)} :
                   \A r \in {Dispatch(f)} :
                       /\ r.st.wt[i].out = Value(f.payload)
                       /\ Future(r.st, i) = Mismatch
                       /\ ~Installed(Handler("wait", i), r.st.hs)
                       /\ ~InvokedIn(r.log, Handler("wait", j))
                       /\ Installed(Handler("wait", j), r.st.hs)
                       /\ r.st.wt[j] = wt[j]
                       /\ Future(r.st, j) = Pending
                       /\ \A g \in DataConfirmFrames :
                              \A w \in {Walk(r.st, 1, <<>>, g)} :
                                  /\ w.st.wt[j].out = Value(g.payload)
                                  /\ Future(w.st, j) = IF g = f THEN Value(<<>>) ELSE Mismatch
                                  /\ Future(w.st, i) = Mismatch

\* The confirm of the second data request came first: the first request
\* failed on it, and the second is still waiting.
C26_Witness ==
    \E i, j \in 1..Len(ops) :
        /\ i < j
        /\ ops[i].api = "AfDataRequest" /\ ops[j].api = "AfDataRequest"
        /\ wt[i].out = Value(<<0, ops[j].DstEndpoint, ops[j].TransId>>)
        /\ fut[i] = Mismatch
        /\ req[j].out = Value(<<0>>)
        /\ Installed(Handler("wait", j), handlers) /\ fut[j] = Pending

\* Waiter i was installed with timeout <= 0 and is pending.
UntimedPending(i) ==
    wt[i].made /\ ops[i].timeout_in_seconds <= 0 /\ wt[i].n = 0

\* A waiter installed with timeout <= 0 has no timer and never holds
\* Timeout; while it is pending its handler is in the list, a frame that
\* does not satisfy its rule leaves it as it is, and a dispatch changes it
\* only by completing it with the remainder of a frame that satisfies it.
C27_State ==
    \A i \in 1..Len(ops) :
        (wt[i].made /\ ops[i].timeout_in_seconds <= 0) =>
            /\ wt[i].timer = "none" /\ ~wt[i].active
            /\ wt[i].out # WaitForTimeout
            /\ wt[i].n = 1 => wt[i].out.st = "value"
            /\ UntimedPending(i) =>
                   /\ Installed(Handler("wait", i), handlers)
                   /\ \A f \in Frames :
                          \A r \in {Dispatch(f)} :
                              /\ ~Matches(ops[i], f) =>
                                     /\ r.st.wt[i] = wt[i]
                                     /\ Installed(Handler("wait", i), r.st.hs)
                              /\ r.st.wt[i] # wt[i] =>
                                     /\ InvokedIn(r.log, Handler("wait", i))
                                     /\ r.st.wt[i].out = Value(Remainder(ops[i], f))

\* No step that fires the timer of a waiter touches a pending waiter without
\* timer, and no step fires a timer for it.
C27_Step ==
    \A i \in 1..Len(ops) :
        UntimedPending(i) =>
            /\ wt'[i].timer = "none"
            /\ (\E j \in 1..Len(wt) : wt[j].timer = "armed" /\ wt'[j].timer = "fired") =>
                   /\ wt'[i] = wt[i]
                   /\ handlers' = handlers
                   /\ fut'[i] = fut[i]

\* C27: a waiter installed with timeout <= 0 has no timer: only a frame
\* that satisfies its rule completes it, it never completes with Timeout,
\* and it stays in the list, pending, over frames that do not satisfy its
\* rule and over the timers of other waiters.
C27_UntimedWaiterStays == []C27_State /\ [][C27_Step]_vars

\* The waiter of a data request, without timer, is pending in the list
\* after the timer of a bind waiter has fired.
C27_Witness ==
    \E i, j \in 1..Len(ops) :
        /\ ops[i].api = "AfDataRequest" /\ UntimedPending(i)
        /\ Installed(Handler("wait", i), handlers)
        /\ TimedOut(j)

\* Calls i and j are binds for different addresses whose waiters are both
\* in the list, pending, with their timers running.
BothWaiting(i, j) ==
    /\ i # j
    /\ ops[i].api = "ZdoBind" /\ ops[j].api = "ZdoBind"
    /\ ops[i].data_prefix # ops[j].data_prefix
    /\ wt[i].made /\ wt[i].active /\ wt[j].made /\ wt[j].active
    /\ Installed(Handler("wait", i), handlers)
    /\ Installed(Handler("wait", j), handlers)

\* The BIND_RSP for the address of call i, with status 0.
BindRspOf(i) == Areq(ZdoCommand.BIND_RSP, ops[i].data_prefix \o <<0>>)

\* The BIND_RSP of call i completes the waiter of i and leaves the waiter of
\* the other bind j pending, in the list, with its timer armed.
OnlyOwnWaiter(r, i, j) ==
    /\ r.st.wt[i].n = 1 /\ r.st.wt[i].out = Value(<<0>>)
    /\ ~Installed(Handler("wait", i), r.st.hs)
    /\ Future(r.st, i) = Value(<<>>)
    /\ r.st.wt[j] = wt[j]
    /\ Installed(Handler("wait", j), r.st.hs)
    /\ Future(r.st, j) = Pending
    /\ wt[j].timer = "armed"
    /\ TimerCallback(r.st.wt[j]).out = WaitForTimeout
    /\ \A w \in {Walk(r.st, 1, <<>>, BindRspOf(j))} :
           w.st.wt[j].out = Value(<<0>>) /\ w.st.wt[i] = r.st.wt[i]

\* C28, as stated: with two binds for different addresses past their SRSP,
\* each BIND_RSP completes only the waiter whose prefix it starts with,
\* whatever the order of the responses; the other waiter is invoked, does
\* not claim, and stays pending until its own response or its timer.
C28_OtherWaiterInvoked ==
    \A i, j \in 1..Len(ops) :
        BothWaiting(i, j) =>
            \A r \in {Dispatch(BindRspOf(i))} :
                /\ OnlyOwnWaiter(r, i, j)
                /\ InvokedIn(r.log, Handler("wait", j))

\* C28, amended: as above, but the other waiter is invoked (and does not
\* claim) only when it is ahead of the claiming waiter in the list; when it
\* is behind, the dispatch has stopped before it and it is not invoked.
C28_OtherWaiterInvokedIfAhead ==
    \A i, j \in 1..Len(ops) :
        BothWaiting(i, j) =>
            \A r \in {Dispatch(BindRspOf(i))} :
                /\ OnlyOwnWaiter(r, i, j)
                /\ InvokedIn(r.log, Handler("wait", j)) <=> WaitsAhead(j, i)
                /\ \A k \in 1..Len(r.log) :
                       r.log[k].h = Handler("wait", j) =>
                           ~r.log[k].stop_processing /\ ~r.log[k].remove_me

\* The response of the second bind came first: its waiter completed while
\* the first bind's waiter, ahead of it in the list, is still pending with
\* its timer armed.
C28_Witness ==
    \E i, j \in 1..Len(ops) :
        /\ i < j
        /\ ops[i].api = "ZdoBind" /\ ops[j].api = "ZdoBind"
        /\ wt[j].out = Value(<<0>>) /\ fut[j] = Value(<<>>)
        /\ wt[i].made /\ wt[i].n = 0 /\ wt[i].timer = "armed"
        /\ Installed(Handler("wait", i), handlers)
====
